---- MODULE Spec2Model ----
(***************************************************************************)
(* A model of ludwig/models/trainer.py (and of ludwig/backend/             *)
(* datasource.py, at the end): the Trainer's batch-size tuner              *)
(* (tune_batch_size) and its epoch loop (train, _train_loop,               *)
(* check_progress_on_validation, reduce_learning_rate and the SIGINT       *)
(* handler set_epochs_to_1_or_quit), with the ProgressTracker and what is  *)
(* persisted on disk.                                                      *)
(*                                                                         *)
(* The specifications share the variables:                                 *)
(*   SpecTune        one call of Trainer.tune_batch_size                   *)
(*   SpecTuneLive    the same, under weak fairness of its steps            *)
(*   Spec            one call of Trainer.train, with SIGINTs               *)
(*   SpecPlateau     train without SIGINTs, both plateau controllers on    *)
(*   SpecLogs        train over evaluation results with missing entries    *)
(*   SpecValidation  the validation checks at the head of train            *)
(*   SpecResume      train resumed from a saved training progress          *)
(*   SpecLive        train under weak fairness of its steps                *)
(*   SpecOom         an out-of-memory error in a trial or in a train step  *)
(*   SpecHorovod     the processes of a run: broadcast and train_step      *)
(*   SpecCallbacks   train and its lifecycle callbacks                     *)
(*   SpecTuneLr      one call of Trainer.tune_learning_rate                *)
(*   SpecAbort       train with interrupts, failing steps, two-step save   *)
(*   SpecBatch       train over the batch-size settings TrainerConfig takes*)
(*   SpecSplits      train with controllers watching each split            *)
(*   SpecRead        BinaryNaNCompatibleDatasource: prepare_read and reads *)
(***************************************************************************)
EXTENDS Integers, Sequences, FiniteSets, TLC

VARIABLES
    skip_save_model,     \* Trainer.skip_save_model
    skip_save_progress,  \* Trainer.skip_save_progress
    skip_save_log,       \* Trainer.skip_save_log
    tune_in,             \* arguments of the tuning function and the trials' behaviour
    tune,                \* locals of the tuning function that runs, and its position
    cfg,                 \* the TrainerConfig values and the arguments of train()
    validation_field,    \* Trainer._validation_field (train() may replace it)
    epochs,              \* Trainer.epochs (the handler overwrites it)
    received_sigint,     \* Trainer.received_sigint
    handler_installed,   \* signal.signal(SIGINT, self.set_epochs_to_1_or_quit) was called
    sigints,             \* SIGINTs delivered to the process during train()
    sigint_pc,           \* history: the position of train() at the first handled SIGINT
    pc,                  \* position of train()
    batcher_step,        \* batcher.step: batches consumed in the current epoch
    should_break,        \* the local should_break of train() (line 867)
    progress_tracker,    \* the ProgressTracker of the run
    disk,                \* what is persisted under save_path
    effects,             \* what train() created besides: directory, sinks, callbacks
    ranks,               \* the processes of a Horovod run: model, gradients, position
    datasource,          \* a BinaryNaNCompatibleDatasource: its read tasks and their reads
    exit_status          \* status of sys.exit, -1 while the process lives

flags == <<skip_save_model, skip_save_progress, skip_save_log>>
tune_vars == <<tune_in, tune>>
trainer_vars == <<cfg, validation_field, epochs, received_sigint, handler_installed, sigints, sigint_pc, pc,
                batcher_step, should_break, progress_tracker, disk, effects, exit_status>>
train_vars == <<trainer_vars, ranks, datasource>>
vars == <<flags, tune_vars, train_vars>>

\* the specifications of one process of train() leave the other ranks out
NoRanks == <<>>
\* the specifications of the Trainer read no files
NoDatasource == <<>>

Min(a, b) == IF a <= b THEN a ELSE b
Max(a, b) == IF a >= b THEN a ELSE b

(***************************************************************************)
(* tune_batch_size                                                         *)
(***************************************************************************)

\* batch_size = 128, the placeholder starting value
StartBatchSize == 128
\* max_trials: int = 10
DefaultMaxTrials == 10
\* halving_limit: int = 3
DefaultHalvingLimit == 3

\* bounds of the arguments explored
MaxTrialsBound == 4
HalvingLimitBound == 3

\* len(training_set)
DatasetSizes == {50, 128, 300, 1000, 100000}
\* a trial in "threshold" mode succeeds at sizes <= oom_above and raises the
\* out-of-memory RuntimeError above it; in "arbitrary" mode each trial may
\* succeed, raise RuntimeError, or raise another exception
OomThresholds == {100, 500, 5000}
MaxTrialsValues == (0 .. MaxTrialsBound) \cup {DefaultMaxTrials}
HalvingLimitValues == (0 .. HalvingLimitBound) \cup {DefaultHalvingLimit}

\* the skip_save_* arguments the Trainer was constructed with (lines 310-312)
FlagValues ==
    [skip_save_model : BOOLEAN, skip_save_progress : BOOLEAN, skip_save_log : BOOLEAN]

TuneInputs ==
    [len_training_set : DatasetSizes,
     max_trials : MaxTrialsValues,
     halving_limit : HalvingLimitValues,
     trial : {"threshold"},
     oom_above : OomThresholds,
     flags_at_entry : FlagValues]
    \cup
    [len_training_set : DatasetSizes,
     max_trials : MaxTrialsValues,
     halving_limit : HalvingLimitValues,
     trial : {"arbitrary"},
     oom_above : {0},
     flags_at_entry : FlagValues]

\* the outcomes train_for_tuning(training_set, batch_size, total_steps=3) can have
TrialOutcomes(batch_size) ==
    IF tune_in.trial = "threshold"
    THEN IF batch_size <= tune_in.oom_above THEN {"ok"} ELSE {"oom"}
    ELSE {"ok", "oom", "error"}

\* _is_valid_batch_size
IsValidBatchSize(batch_size) == batch_size < tune_in.len_training_set

\* the locals before the call; high = 0 stands for None (`if high:` is false for
\* both); history: outcome is how the last trial ended, last_ok the size of the
\* last trial that succeeded, trials_ok and trials_failed count the trials
TuneIdle ==
    [pc |-> "idle", batch_size |-> 0, low |-> 0, high |-> 0, prev_batch_size |-> 0,
     count |-> 0, halving_count |-> 0, exc |-> "none", outcome |-> "none",
     last_ok |-> 0, trials_ok |-> 0, trials_failed |-> 0,
     saved |-> [skip_save_model |-> FALSE, skip_save_progress |-> FALSE,
                skip_save_log |-> FALSE]]

\* lines 558-570: remember the flags, set the temporary values, start the search;
\* the caller is not inside train()
TuneEnter ==
    /\ tune.pc = "idle"
    /\ pc = "idle"
    /\ tune' = [tune EXCEPT !.pc = "loop",
                            !.batch_size = StartBatchSize,
                            !.saved = [skip_save_model |-> skip_save_model,
                                       skip_save_progress |-> skip_save_progress,
                                       skip_save_log |-> skip_save_log],
                            !.high = 0, !.count = 0, !.halving_count = 0]
    /\ skip_save_model' = TRUE
    /\ skip_save_progress' = TRUE
    /\ skip_save_log' = TRUE
    /\ UNCHANGED <<tune_in, train_vars>>

\* lines 571-575: the loop condition, then low and prev_batch_size
TuneLoopHead ==
    /\ tune.pc = "loop"
    /\ IF tune.halving_count < tune_in.halving_limit
       THEN tune' = [tune EXCEPT !.pc = "trial",
                                 !.low = tune.batch_size,
                                 !.prev_batch_size = tune.batch_size]
       ELSE tune' = [tune EXCEPT !.pc = "finally"]
    /\ UNCHANGED <<flags, tune_in, train_vars>>

\* lines 602-608: the clamp to the dataset size and the no-progress exit
AfterTry(t) ==
    LET clamped == IF ~IsValidBatchSize(t.batch_size)
                   THEN Min(t.batch_size, tune_in.len_training_set)
                   ELSE t.batch_size
    IN  [t EXCEPT !.batch_size = clamped,
                  !.pc = IF clamped = t.prev_batch_size THEN "finally" ELSE "loop"]

\* mutant of TrialSucceeded: the trial budget is not checked
TrialSucceededUnbounded(t) ==
    LET t1 == [t EXCEPT !.count = t.count + 1]
    IN  IF t1.high # 0 /\ t1.high - t1.low <= 1
        THEN [t1 EXCEPT !.pc = "finally"]
        ELSE LET next == IF t1.high # 0
                         THEN (t1.high + t1.low) \div 2
                         ELSE t1.batch_size * 2
                 t2 == [t1 EXCEPT !.batch_size = next]
             IN  IF next = t1.prev_batch_size
                 THEN [t2 EXCEPT !.pc = "finally"]
                 ELSE AfterTry(t2)

\* lines 577-590 and 602-608: the trial returned
TrialSucceeded(t) ==
    LET t1 == [t EXCEPT !.count = t.count + 1]
    IN  IF t1.count >= tune_in.max_trials
        THEN [t1 EXCEPT !.pc = "finally"]
        ELSE IF t1.high # 0 /\ t1.high - t1.low <= 1
        THEN [t1 EXCEPT !.pc = "finally"]
        ELSE LET next == IF t1.high # 0
                         THEN (t1.high + t1.low) \div 2
                         ELSE t1.batch_size * 2
                 t2 == [t1 EXCEPT !.batch_size = next]
             IN  IF next = t1.prev_batch_size
                 THEN [t2 EXCEPT !.pc = "finally"]
                 ELSE AfterTry(t2)

\* mutant of TrialOutOfMemory: the RuntimeError is not caught
TrialOutOfMemoryPropagates(t) == [t EXCEPT !.pc = "finally", !.exc = "RuntimeError"]

\* lines 592-608: the trial raised RuntimeError
TrialOutOfMemory(t) ==
    LET high == t.batch_size
        midval == (high + t.low) \div 2
        t1 == [t EXCEPT !.high = high,
                        !.halving_count = t.halving_count + 1,
                        !.batch_size = midval]
    IN  IF high - t.low <= 1
        THEN [t1 EXCEPT !.pc = "finally"]
        ELSE AfterTry(t1)

\* line 577: one trial at the current batch size, and what follows it in the loop body;
\* an exception that is no RuntimeError leaves the loop through the finally clause
TuneTrial ==
    /\ tune.pc = "trial"
    /\ \E outcome \in TrialOutcomes(tune.batch_size) :
          tune' = [(CASE outcome = "ok" -> TrialSucceeded(tune)
                      [] outcome = "oom" -> TrialOutOfMemory(tune)
                      [] OTHER -> [tune EXCEPT !.pc = "finally", !.exc = "error"])
                   EXCEPT !.outcome = outcome,
                          !.last_ok = IF outcome = "ok" THEN tune.batch_size ELSE @,
                          !.trials_ok = IF outcome = "ok" THEN @ + 1 ELSE @,
                          !.trials_failed = IF outcome = "oom" THEN @ + 1 ELSE @]
    /\ UNCHANGED <<flags, tune_in, train_vars>>

\* mutant of TuneFinally: the flags are restored on the return path only
TuneFinallyOnReturnOnly ==
    /\ tune.pc = "finally"
    /\ IF tune.exc = "none"
       THEN /\ skip_save_model' = tune.saved.skip_save_model
            /\ skip_save_progress' = tune.saved.skip_save_progress
            /\ skip_save_log' = tune.saved.skip_save_log
       ELSE UNCHANGED flags
    /\ tune' = [tune EXCEPT !.pc = IF tune.exc = "none" THEN "returned" ELSE "raised"]
    /\ UNCHANGED <<tune_in, train_vars>>

\* lines 609-616: the finally clause, then the return or the propagation
TuneFinally ==
    /\ tune.pc = "finally"
    /\ skip_save_model' = tune.saved.skip_save_model
    /\ skip_save_progress' = tune.saved.skip_save_progress
    /\ skip_save_log' = tune.saved.skip_save_log
    /\ tune' = [tune EXCEPT !.pc = IF tune.exc = "none" THEN "returned" ELSE "raised"]
    /\ UNCHANGED <<tune_in, train_vars>>

(***************************************************************************)
(* The metric registry (ludwig.utils.metric_utils) and the model's outputs *)
(***************************************************************************)

COMBINED == "combined"
LOSS == "loss"
TRAINING == "training"
VALIDATION == "validation"
TEST == "test"

\* the values a metric takes: two distinct levels, so that a best value can be
\* improved on after the first epoch
MetricValues == {1, 2}

\* stands for float("inf"), the initial best value of a lower-is-better metric
Infinity == 1000000

\* get_initial_validation_value(metric): the worst possible value
GetInitialValidationValue(metric) == IF metric = LOSS THEN Infinity ELSE -Infinity

\* get_improved_fun(metric)(x, y): lower is better for loss, higher otherwise
Improved(metric, x, y) == IF metric = LOSS THEN x < y ELSE x > y

\* model.output_features and their metric_functions: one output feature, whose
\* only metric is its loss
OutputFeatures == {"y"}
MetricFunctions(output_feature) == {LOSS}

\* get_metrics_names plus the synthetic combined target
MetricsNames(feature) == IF feature = COMBINED THEN {LOSS} ELSE MetricFunctions(feature)

\* model.output_features of the runs: each output feature with its metric_functions
ModelOutputFeatures == [f \in OutputFeatures |-> MetricFunctions(f)]

\* get_metrics_names (lines 1235-1243): the metrics of every output feature, and the
\* loss alone for "combined"
GetMetricsNames(output_features) ==
    [f \in DOMAIN output_features \cup {COMBINED} |->
        IF f = COMBINED THEN {LOSS} ELSE output_features[f]]

\* initialize_training_metrics: one empty log per declared metric, plus combined/loss
InitializeTrainingMetrics ==
    [f \in OutputFeatures \cup {COMBINED} |-> [m \in MetricsNames(f) |-> <<>>]]

\* the result of Predictor.batch_evaluation on a split: the combined loss is the
\* sum of the per-target losses, which with one target is that target's loss
EvaluationResults == {[f \in OutputFeatures \cup {COMBINED} |-> [m \in MetricsNames(f) |-> v]] :
                         v \in MetricValues}

\* a result from which the metrics of the output features were excepted and
\* excluded (line 1059); the combined loss is always reported
PartialEvaluationResults ==
    {[f \in OutputFeatures \cup {COMBINED} |->
         IF f = COMBINED THEN [m \in {LOSS} |-> 1] ELSE <<>>]}

\* what the evaluation of a split can return under configuration c
EvaluationResultsOf(c) ==
    IF c.metrics_excepted
    THEN EvaluationResults \cup PartialEvaluationResults
    ELSE EvaluationResults

\* mutant of AppendMetrics: the log is rebuilt from the keys of the results
AppendMetricsOfResults(results, metrics_log) ==
    [f \in DOMAIN results |->
        [m \in DOMAIN results[f] |-> Append(metrics_log[f][m], results[f][m])]]

\* append_metrics: every metric present in the results is appended to its log,
\* then the combined loss
AppendMetrics(results, metrics_log) ==
    [f \in DOMAIN metrics_log |->
        [m \in DOMAIN metrics_log[f] |->
            IF f = COMBINED
            THEN Append(metrics_log[f][m], results[COMBINED][LOSS])
            ELSE IF m \in DOMAIN results[f]
                 THEN Append(metrics_log[f][m], results[f][m])
                 ELSE metrics_log[f][m]]]

Last(seq) == seq[Len(seq)]

(***************************************************************************)
(* TrainerConfig and the arguments of train()                              *)
(***************************************************************************)

\* bounds of the configurations explored
MaxEpochs == 3
MaxEarlyStop == 2
MaxPatience == 1
\* batcher.steps_per_epoch
StepsPerEpoch == 2

\* learning_rate (default 0.001) in units of 1e-6
BaseLearningRate == 1000
\* batch_size (default 128)
ConfigBatchSize == 128

\* reduce_learning_rate_on_plateau is a float in [0, 1]: the model holds twice its
\* value, so 0, 1 and 2 stand for 0.0, 0.5 and 1.0
AtLeast(count, twice_limit) == 2 * count >= twice_limit

\* reduce_learning_rate_on_plateau_rate (default 0.5) as a fraction
RateNum == 1
RateDen == 2

\* mutant of TimesRate: the rate divides the learning rate
TimesRateInverse(learning_rate) == (learning_rate * RateDen) \div RateNum
TimesRate(learning_rate) == (learning_rate * RateNum) \div RateDen

AllTrainConfigs ==
    [epochs : 1 .. MaxEpochs,
     early_stop : -1 .. MaxEarlyStop,
     validation_field : {COMBINED, "z"},
     validation_metric : {LOSS, "accuracy"},
     reduce_learning_rate_on_plateau : {0, 2},
     reduce_learning_rate_on_plateau_patience : 0 .. MaxPatience,
     reduce_learning_rate_eval_metric : {LOSS},
     reduce_learning_rate_eval_split : {TRAINING, VALIDATION},
     increase_batch_size_on_plateau : {0},
     increase_batch_size_on_plateau_patience : {0},
     increase_batch_size_on_plateau_rate : {2},
     increase_batch_size_on_plateau_max : {512},
     increase_batch_size_eval_metric : {LOSS},
     increase_batch_size_eval_split : {TRAINING},
     validation_set : {"none", "empty", "nonempty"},
     test_set : {"none"},
     metrics_excepted : {FALSE},
     output_features : {ModelOutputFeatures},
     loss_interned : {TRUE},
     resume : {FALSE},
     main_thread : BOOLEAN,
     coordinator : BOOLEAN]

\* lines 636-653: validation_field is "combined" or names an output feature
ValidValidationField(c) ==
    c.validation_field = COMBINED \/ c.validation_field \in DOMAIN c.output_features

\* line 640, self.validation_metric is not LOSS: a test of object identity, true of
\* every other string and of a string "loss" that is not the object LOSS itself
IsNotLOSS(c) == c.validation_metric # LOSS \/ ~c.loss_interned

\* the validation field without the replacement of line 643
ValidationFieldAsConfigured(c) == c.validation_field

\* lines 638-649: "combined" with a metric that is not LOSS is replaced by the
\* only output feature when that feature declares the metric
ValidationField(c) ==
    IF /\ c.validation_field = COMBINED
       /\ IsNotLOSS(c)
       /\ Cardinality(DOMAIN c.output_features) = 1
       /\ c.validation_metric \in
              GetMetricsNames(c.output_features)[CHOOSE f \in DOMAIN c.output_features : TRUE]
    THEN CHOOSE f \in DOMAIN c.output_features : TRUE
    ELSE c.validation_field

\* lines 661-669: the metric is one of the validation field's metrics
ValidValidationMetric(c) ==
    c.validation_metric \in GetMetricsNames(c.output_features)[ValidationField(c)]

\* train() passes its checks of validation_field and validation_metric
ValidConfig(c) == ValidValidationField(c) /\ ValidValidationMetric(c)

\* One configuration for each class of configurations that differ only in fields
\* the code never reads: the patience and the split of a disabled learning-rate
\* controller (line 1130), and early_stop and the controller's settings when
\* should_validate is false (line 866), which are then set to their most eager
\* values; and everything but the thread and the rank when train() raises at
\* line 656 or 664
TrainConfigs ==
    {c \in AllTrainConfigs :
        /\ ~ValidConfig(c) => c.epochs = 1 /\ c.validation_set = "none"
        /\ c.reduce_learning_rate_on_plateau = 0 =>
              /\ c.reduce_learning_rate_on_plateau_patience = 0
              /\ c.reduce_learning_rate_eval_split = TRAINING
        /\ c.validation_set # "nonempty" =>
              /\ c.early_stop = 1
              /\ c.reduce_learning_rate_on_plateau = 2
              /\ c.reduce_learning_rate_on_plateau_patience = 0
              /\ c.reduce_learning_rate_eval_split = TRAINING}

\* should_validate without the test of the size
ShouldValidateWhenGiven == cfg.validation_set # "none"

\* should_validate = validation_set is not None and validation_set.size > 0
ShouldValidate == cfg.validation_set = "nonempty"

\* self: the Trainer's attributes as train() reads them, the configuration with
\* the validation field that line 643 may have replaced
Self == [cfg EXCEPT !.validation_field = validation_field]

\* is_coordinator(): no horovod, or rank 0
IsCoordinator == cfg.coordinator

(***************************************************************************)
(* ProgressTracker                                                         *)
(***************************************************************************)

\* the tracker before train() builds it
NullTracker ==
    [batch_size |-> 0, epoch |-> 0, steps |-> 0,
     last_improvement_epoch |-> 0, last_improvement |-> 0,
     last_learning_rate_reduction_epoch |-> 0, last_learning_rate_reduction |-> 0,
     last_increase_batch_size_epoch |-> 0, last_increase_batch_size |-> 0,
     learning_rate |-> 0,
     best_eval_metric |-> 0,
     best_reduce_learning_rate_eval_metric |-> 0,
     last_reduce_learning_rate_eval_metric_improvement |-> 0,
     best_increase_batch_size_eval_metric |-> 0,
     last_increase_batch_size_eval_metric_improvement |-> 0,
     num_reductions_learning_rate |-> 0,
     num_increases_batch_size |-> 0,
     train_metrics |-> InitializeTrainingMetrics,
     vali_metrics |-> InitializeTrainingMetrics,
     test_metrics |-> InitializeTrainingMetrics]

\* lines 713-738: the tracker of a fresh run
FreshTracker(c) ==
    [NullTracker EXCEPT
        !.batch_size = ConfigBatchSize,
        !.learning_rate = BaseLearningRate,
        !.best_eval_metric = GetInitialValidationValue(c.validation_metric),
        !.best_reduce_learning_rate_eval_metric =
            GetInitialValidationValue(c.reduce_learning_rate_eval_metric),
        !.best_increase_batch_size_eval_metric =
            GetInitialValidationValue(c.increase_batch_size_eval_metric)]

\* the parameters of ProgressTracker.__init__ (lines 1408-1427)
ConstructorParameters ==
    {"epoch", "batch_size", "steps", "last_improvement_epoch",
     "last_learning_rate_reduction_epoch", "last_increase_batch_size_epoch",
     "best_eval_metric", "best_reduce_learning_rate_eval_metric",
     "last_reduce_learning_rate_eval_metric_improvement",
     "best_increase_batch_size_eval_metric",
     "last_increase_batch_size_eval_metric_improvement", "learning_rate",
     "num_reductions_learning_rate", "num_increases_batch_size", "train_metrics",
     "vali_metrics", "test_metrics", "last_improvement",
     "last_learning_rate_reduction", "last_increase_batch_size"}

\* the attributes ProgressTracker.__init__ assigns (lines 1429-1448)
TrackerAttributes ==
    {"batch_size", "epoch", "steps", "last_improvement_epoch", "last_improvement",
     "last_learning_rate_reduction_epoch", "last_learning_rate_reduction",
     "last_increase_batch_size_epoch", "last_increase_batch_size", "learning_rate",
     "best_eval_metric", "best_reduce_learning_rate_eval_metric",
     "last_reduce_learning_rate_eval_metric_improvement",
     "best_increase_batch_size_eval_metric",
     "last_increase_batch_size_eval_metric_improvement",
     "num_reductions_learning_rate", "num_increases_batch_size", "train_metrics",
     "vali_metrics", "test_metrics"}

\* the attributes that hold a metric log
LogAttributes == {"train_metrics", "vali_metrics", "test_metrics"}

\* mutant of TrackerDict: last_improvement is not among the persisted attributes
TrackerDictWithoutLastImprovement(pt) ==
    [k \in TrackerAttributes \ {"last_improvement"} |-> pt[k]]

\* self.__dict__ of a tracker (line 1451)
TrackerDict(pt) == [k \in TrackerAttributes |-> pt[k]]

\* json.dump of a number: a number token, or the literal Infinity / -Infinity
JsonNumber(v) ==
    IF v = Infinity THEN [token |-> "Infinity", value |-> 0]
    ELSE IF v = -Infinity THEN [token |-> "-Infinity", value |-> 0]
    ELSE [token |-> "number", value |-> v]

\* json.load of such a token
FromJsonNumber(j) ==
    IF j.token = "Infinity" THEN Infinity
    ELSE IF j.token = "-Infinity" THEN -Infinity
    ELSE j.value

\* save_json(filepath, data): an object per dictionary, an array per list
SaveJson(data) ==
    [k \in DOMAIN data |->
        IF k \in LogAttributes
        THEN [f \in DOMAIN data[k] |->
                [m \in DOMAIN data[k][f] |->
                    [i \in 1 .. Len(data[k][f][m]) |-> JsonNumber(data[k][f][m][i])]]]
        ELSE JsonNumber(data[k])]

\* load_json(filepath)
LoadJson(json) ==
    [k \in DOMAIN json |->
        IF k \in LogAttributes
        THEN [f \in DOMAIN json[k] |->
                [m \in DOMAIN json[k][f] |->
                    [i \in 1 .. Len(json[k][f][m]) |-> FromJsonNumber(json[k][f][m][i])]]]
        ELSE FromJsonNumber(json[k])]

\* ProgressTracker.save (lines 1450-1451): the content of the file
TrackerSave(pt) == SaveJson(TrackerDict(pt))

\* ProgressTracker.load (lines 1453-1456): ProgressTracker(**loaded) raises TypeError
\* unless the keys are exactly the constructor's parameters
TrackerLoad(json) ==
    LET loaded == LoadJson(json)
    IN  IF DOMAIN loaded = ConstructorParameters
        THEN [k \in TrackerAttributes |-> loaded[k]]
        ELSE [error |-> "TypeError"]

\* the metric log of a split
SplitMetrics(pt, split) ==
    IF split = TRAINING THEN pt.train_metrics
    ELSE IF split = VALIDATION THEN pt.vali_metrics
    ELSE pt.test_metrics

(***************************************************************************)
(* The plateau controllers and check_progress_on_validation                *)
(***************************************************************************)

\* reduce_learning_rate below its budget check (lines 1264-1308): the watched value
\* either improves on the best one or counts as one more epoch without improvement,
\* and the rate is reduced once both counters have reached the patience
ReduceLearningRateBody(pt, c, feature) ==
    LET split_metrics == SplitMetrics(pt, c.reduce_learning_rate_eval_split)
        validation_metric == c.reduce_learning_rate_eval_metric
        last_metric_value == Last(split_metrics[feature][validation_metric])
        is_improved == Improved(validation_metric, last_metric_value,
                                pt.best_reduce_learning_rate_eval_metric)
    IN  IF is_improved
        THEN [pt EXCEPT !.best_reduce_learning_rate_eval_metric = last_metric_value,
                        !.last_reduce_learning_rate_eval_metric_improvement = 0]
        ELSE
            LET pt1 == [pt EXCEPT
                          !.last_reduce_learning_rate_eval_metric_improvement = @ + 1]
            IN  IF /\ pt1.last_learning_rate_reduction
                          >= c.reduce_learning_rate_on_plateau_patience
                   /\ pt1.last_reduce_learning_rate_eval_metric_improvement
                          >= c.reduce_learning_rate_on_plateau_patience
                THEN [pt1 EXCEPT
                        !.learning_rate = TimesRate(pt1.learning_rate),
                        !.last_learning_rate_reduction_epoch = pt1.epoch,
                        !.last_learning_rate_reduction = 0,
                        !.num_reductions_learning_rate = @ + 1]
                ELSE pt1

\* mutant of ReduceLearningRate: the budget num_reductions_learning_rate >=
\* reduce_learning_rate_on_plateau is not checked
ReduceLearningRateUnbounded(pt, c, feature) == ReduceLearningRateBody(pt, c, feature)

\* reduce_learning_rate (lines 1252-1308); feature is validation_output_feature_name
ReduceLearningRate(pt, c, feature) ==
    IF AtLeast(pt.num_reductions_learning_rate, c.reduce_learning_rate_on_plateau)
    THEN pt
    ELSE ReduceLearningRateBody(pt, c, feature)

\* mutant of NewBatchSize: the product is not capped
NewBatchSizeUncapped(pt, c) == c.increase_batch_size_on_plateau_rate * pt.batch_size

\* lines 1354-1357: the batch size after an increase
NewBatchSize(pt, c) ==
    Min(c.increase_batch_size_on_plateau_rate * pt.batch_size,
        c.increase_batch_size_on_plateau_max)

\* increase_batch_size (lines 1310-1381)
IncreaseBatchSize(pt, c, feature) ==
    IF \/ pt.num_increases_batch_size >= c.increase_batch_size_on_plateau
       \/ pt.batch_size = c.increase_batch_size_on_plateau_max
    THEN pt
    ELSE
        LET split_metrics == SplitMetrics(pt, c.increase_batch_size_eval_split)
            validation_metric == c.increase_batch_size_eval_metric
            last_metric_value == Last(split_metrics[feature][validation_metric])
            is_improved == Improved(validation_metric, last_metric_value,
                                    pt.best_increase_batch_size_eval_metric)
        IN  IF is_improved
            THEN [pt EXCEPT !.best_increase_batch_size_eval_metric = last_metric_value,
                            !.last_increase_batch_size_eval_metric_improvement = 0]
            ELSE
                LET pt1 == [pt EXCEPT
                              !.last_increase_batch_size_eval_metric_improvement = @ + 1]
                IN  IF /\ pt1.last_increase_batch_size
                              >= c.increase_batch_size_on_plateau_patience
                       /\ pt1.last_increase_batch_size_eval_metric_improvement
                              >= c.increase_batch_size_on_plateau_patience
                    THEN [pt1 EXCEPT
                            !.batch_size = NewBatchSize(pt1, c),
                            !.last_increase_batch_size_epoch = pt1.epoch,
                            !.last_increase_batch_size = 0,
                            !.num_increases_batch_size = @ + 1]
                    ELSE pt1

\* mutant of ValidationImproved: a value equal to the best one counts as better
ValidationNotWorse(pt, c) ==
    ~Improved(c.validation_metric,
              pt.best_eval_metric,
              Last(pt.vali_metrics[c.validation_field][c.validation_metric]))

\* lines 1109-1115: the validation metric improved on best_eval_metric
ValidationImproved(pt, c) ==
    Improved(c.validation_metric,
             Last(pt.vali_metrics[c.validation_field][c.validation_metric]),
             pt.best_eval_metric)

\* lines 1109-1122: last_improvement_epoch, best_eval_metric and last_improvement
RecordImprovement(pt, c) ==
    LET pt1 == IF ValidationImproved(pt, c)
               THEN [pt EXCEPT
                       !.last_improvement_epoch = pt.epoch,
                       !.best_eval_metric =
                           Last(pt.vali_metrics[c.validation_field][c.validation_metric])]
               ELSE pt
    IN  [pt1 EXCEPT !.last_improvement = pt1.epoch - pt1.last_improvement_epoch]

\* mutant of ReducePlateauLogic: a reduction of the learning rate also restarts the
\* batch-size controller's count of epochs without improvement
ReducePlateauLogicShared(pt, c) ==
    IF c.reduce_learning_rate_on_plateau > 0
    THEN LET pt1 == ReduceLearningRate(pt, c, c.validation_field)
             fired == pt1.num_reductions_learning_rate > pt.num_reductions_learning_rate
         IN  [pt1 EXCEPT !.last_learning_rate_reduction =
                             pt1.epoch - pt1.last_learning_rate_reduction_epoch,
                         !.last_increase_batch_size_eval_metric_improvement =
                             IF fired THEN 0 ELSE @]
    ELSE pt

\* lines 1129-1142: the learning-rate controller, when enabled
ReducePlateauLogic(pt, c) ==
    IF c.reduce_learning_rate_on_plateau > 0
    THEN LET pt1 == ReduceLearningRate(pt, c, c.validation_field)
         IN  [pt1 EXCEPT !.last_learning_rate_reduction =
                             pt1.epoch - pt1.last_learning_rate_reduction_epoch]
    ELSE pt

\* lines 1155-1169: the batch-size controller, when enabled
IncreasePlateauLogic(pt, c) ==
    IF c.increase_batch_size_on_plateau > 0
    THEN LET pt1 == IncreaseBatchSize(pt, c, c.validation_field)
         IN  [pt1 EXCEPT !.last_increase_batch_size =
                             pt1.epoch - pt1.last_increase_batch_size_epoch]
    ELSE pt

\* mutant of EarlyStop: the stop waits for one epoch more than early_stop
EarlyStopOneLate(pt, early_stop) == 0 < early_stop /\ early_stop < pt.last_improvement

\* lines 1184-1194: the early-stop decision
EarlyStop(pt, early_stop) == 0 < early_stop /\ early_stop <= pt.last_improvement

\* check_progress_on_validation: the tracker it leaves
CheckProgressOnValidation(pt, c) ==
    IncreasePlateauLogic(ReducePlateauLogic(RecordImprovement(pt, c), c), c)

\* the reads [-1] of the watched logs (lines 1111, 1272, 1334), in the order
\* check_progress_on_validation makes them: the first one that finds its list
\* empty raises IndexError, "none" when each read finds a value
IndexErrorAt(pt, c) ==
    IF pt.vali_metrics[c.validation_field][c.validation_metric] = <<>>
    THEN "improvement"
    ELSE
      LET pt1 == RecordImprovement(pt, c)
      IN  IF /\ c.reduce_learning_rate_on_plateau > 0
             /\ ~AtLeast(pt1.num_reductions_learning_rate, c.reduce_learning_rate_on_plateau)
             /\ SplitMetrics(pt1, c.reduce_learning_rate_eval_split)
                    [c.validation_field][c.reduce_learning_rate_eval_metric] = <<>>
          THEN "reduce"
          ELSE
            LET pt2 == ReducePlateauLogic(pt1, c)
            IN  IF /\ c.increase_batch_size_on_plateau > 0
                   /\ pt2.num_increases_batch_size < c.increase_batch_size_on_plateau
                   /\ pt2.batch_size # c.increase_batch_size_on_plateau_max
                   /\ SplitMetrics(pt2, c.increase_batch_size_eval_split)
                          [c.validation_field][c.increase_batch_size_eval_metric] = <<>>
                THEN "increase"
                ELSE "none"

\* the tracker as check_progress_on_validation leaves it when a read raises
TrackerAtIndexError(pt, c) ==
    IF IndexErrorAt(pt, c) = "improvement" THEN pt
    ELSE IF IndexErrorAt(pt, c) = "reduce" THEN RecordImprovement(pt, c)
    ELSE ReducePlateauLogic(RecordImprovement(pt, c), c)

(***************************************************************************)
(* train()                                                                 *)
(***************************************************************************)

\* nothing persisted yet; an epoch of 0 stands for an absent file
EmptyDisk ==
    [weights_writes |-> 0, weights_epoch |-> 0,
     checkpoint_epoch |-> 0, tracker_saved |-> FALSE, tracker |-> NullTracker]

\* nothing created yet
NoEffects ==
    [save_dir |-> FALSE, setup_callback |-> FALSE, checkpoint_manager |-> FALSE,
     log_sinks |-> FALSE, log_writes |-> 0, log_sinks_closed |-> FALSE,
     checkpoint_loaded |-> FALSE, epochs_started |-> 0, step_failures |-> 0,
     batcher_epoch |-> -1, batcher_batch_size |-> 0, current_learning_rate |-> 0,
     callbacks |-> <<>>, epoch_start_calls |-> 0, epoch_end_calls |-> 0]

\* lines 671-711: the coordinator creates save_path and the checkpoint manager,
\* every worker runs on_trainer_train_setup (coordinator_only=False), the
\* coordinator opens the summary writers unless skip_save_log, and with resume it
\* loads the latest checkpoint into the model and the optimizer (710-711)
SetupEffects ==
    [NoEffects EXCEPT
        !.save_dir = IsCoordinator, !.setup_callback = TRUE,
        !.checkpoint_manager = IsCoordinator,
        !.log_sinks = (IsCoordinator /\ ~skip_save_log),
        !.checkpoint_loaded = (cfg.resume /\ IsCoordinator)]

\* the tracker of a resumed run without the load of line 708
InitialTrackerAlwaysFresh(c, d) == FreshTracker(c)

\* lines 707-738: with resume the tracker is loaded from the file under save_path,
\* otherwise it is built from the configuration
InitialTracker(c, d) ==
    IF c.resume THEN TrackerLoad(TrackerSave(d.tracker)) ELSE FreshTracker(c)

\* lines 1388-1391, self.callback(fn) with coordinator_only left at True: the
\* callbacks run on the coordinator only; callbacks lists the calls of the
\* current epoch
Callback(e, name) ==
    IF IsCoordinator
    THEN [e EXCEPT !.callbacks = Append(@, name),
                   !.epoch_start_calls = @ + (IF name = "on_epoch_start" THEN 1 ELSE 0),
                   !.epoch_end_calls = @ + (IF name = "on_epoch_end" THEN 1 ELSE 0)]
    ELSE e

\* lines 816-850: the callbacks around the evaluation of the validation set and
\* of the test set, each inside the test `is not None`
EvaluationCallbacks(e, c) ==
    LET v == IF c.validation_set # "none"
             THEN Callback(Callback(e, "on_validation_start"), "on_validation_end")
             ELSE e
    IN  IF c.test_set # "none"
        THEN Callback(Callback(v, "on_test_start"), "on_test_end")
        ELSE v

\* write_step_summary and write_epoch_summary write to an open sink only
LogWrites(e, n) == IF e.log_sinks THEN [e EXCEPT !.log_writes = @ + n] ELSE e

\* torch.save(self.model.state_dict(), model_weights_path)
SaveWeights(d, pt) ==
    [d EXCEPT !.weights_writes = @ + 1, !.weights_epoch = pt.epoch]

\* mutant of TrainSetup: the handler is installed whatever the thread
TrainSetupAnyThread ==
    /\ pc = "init"
    /\ handler_installed' = TRUE
    /\ validation_field' = ValidationField(cfg)
    /\ IF ValidConfig(cfg)
       THEN /\ effects' = SetupEffects
            /\ progress_tracker' = InitialTracker(cfg, disk)
            /\ pc' = "loop"
       ELSE /\ pc' = "raised"
            /\ UNCHANGED <<effects, progress_tracker>>
    /\ UNCHANGED <<flags, tune_vars, ranks, datasource, cfg, epochs, received_sigint, sigints, sigint_pc,
                   batcher_step, should_break, disk, exit_status>>

\* lines 626-753: the setup before the epoch loop of a fresh run; the handler is
\* installed only on the main thread (630-631), then an invalid validation_field
\* or validation_metric raises ValueError (634-669)
TrainSetup ==
    /\ pc = "init"
    /\ handler_installed' = cfg.main_thread
    /\ validation_field' = ValidationField(cfg)
    /\ IF ValidConfig(cfg)
       THEN /\ effects' = SetupEffects
            /\ progress_tracker' = InitialTracker(cfg, disk)
            /\ pc' = "loop"
       ELSE /\ pc' = "raised"
            /\ UNCHANGED <<effects, progress_tracker>>
    /\ UNCHANGED <<flags, tune_vars, ranks, datasource, cfg, epochs, received_sigint, sigints, sigint_pc,
                   batcher_step, should_break, disk, exit_status>>

\* lines 756-781: the loop condition and the start of an epoch, where
\* batcher.set_epoch takes the tracker's epoch and batch size; lines 903-908 follow
\* the loop
LoopHead ==
    /\ pc = "loop"
    /\ IF progress_tracker.epoch < epochs
       THEN /\ pc' = "steps"
            /\ batcher_step' = 0
            /\ effects' = [Callback([effects EXCEPT !.callbacks = <<>>],
                                     "on_epoch_start") EXCEPT
                              !.epochs_started = @ + 1,
                              !.batcher_epoch = progress_tracker.epoch,
                              !.batcher_batch_size = progress_tracker.batch_size]
       ELSE pc' = "after_loop" /\ UNCHANGED <<batcher_step, effects>>
    /\ UNCHANGED <<flags, tune_vars, ranks, datasource, cfg, validation_field, epochs, received_sigint, handler_installed,
                   sigints, sigint_pc, should_break, progress_tracker, disk, exit_status>>

\* _train_loop, one iteration (lines 918-1004): the learning rate is read from the
\* tracker (922), then one batch, one gradient step
TrainStep ==
    /\ pc = "steps"
    /\ batcher_step < StepsPerEpoch
    /\ batcher_step' = batcher_step + 1
    /\ progress_tracker' = [progress_tracker EXCEPT !.steps = @ + 1]
    /\ effects' = Callback(
                      LogWrites([Callback(effects, "on_batch_start") EXCEPT
                          !.current_learning_rate = progress_tracker.learning_rate], 1),
                      "on_batch_end")
    /\ UNCHANGED <<flags, tune_vars, ranks, datasource, cfg, validation_field, epochs, received_sigint, handler_installed,
                   sigints, sigint_pc, pc, should_break, disk, exit_status>>

\* train_step (line 968) raises the out-of-memory RuntimeError: nothing in
\* _train_loop or train() catches it, it propagates out of train()
TrainStepOutOfMemory ==
    /\ pc = "steps"
    /\ batcher_step < StepsPerEpoch
    /\ effects' = [Callback(effects, "on_batch_start") EXCEPT !.step_failures = @ + 1]
    /\ pc' = "runtime_error"
    /\ UNCHANGED <<flags, tune_vars, ranks, datasource, cfg, validation_field, epochs, received_sigint, handler_installed,
                   sigints, sigint_pc, batcher_step, should_break, progress_tracker, disk,
                   exit_status>>

\* lines 786-863: batcher.last_batch() ended the step loop; the epoch counter is
\* incremented and the splits are evaluated
EpochEval ==
    /\ pc = "steps"
    /\ batcher_step = StepsPerEpoch
    /\ \E train_results \in EvaluationResultsOf(cfg),
          vali_results \in EvaluationResultsOf(cfg),
          test_results \in EvaluationResultsOf(cfg) :
          /\ cfg.validation_set = "none" => vali_results = train_results
          /\ cfg.test_set = "none" => test_results = train_results
          /\ progress_tracker' =
                [progress_tracker EXCEPT
                    !.epoch = @ + 1,
                    !.train_metrics = AppendMetrics(train_results, @),
                    !.vali_metrics = IF cfg.validation_set # "none"
                                     THEN AppendMetrics(vali_results, @) ELSE @,
                    !.test_metrics = IF cfg.test_set # "none"
                                     THEN AppendMetrics(test_results, @) ELSE @]
    /\ effects' = LogWrites(EvaluationCallbacks(effects, cfg),
                             1 + (IF cfg.validation_set = "nonempty" THEN 1 ELSE 0)
                               + (IF cfg.test_set = "nonempty" THEN 1 ELSE 0))
    /\ pc' = "validate"
    /\ UNCHANGED <<flags, tune_vars, ranks, datasource, cfg, validation_field, epochs, received_sigint, handler_installed,
                   sigints, sigint_pc, batcher_step, should_break, disk, exit_status>>

\* mutant of ValidationLogic: without a validation set the weights are not saved
ValidationLogicSavesOnImprovementOnly ==
    /\ pc = "validate"
    /\ IF ShouldValidate
       THEN LET pt == CheckProgressOnValidation(progress_tracker, Self)
            IN  /\ progress_tracker' = pt
                /\ disk' = IF /\ ValidationImproved(progress_tracker, Self)
                              /\ IsCoordinator /\ ~skip_save_model
                           THEN SaveWeights(disk, progress_tracker)
                           ELSE disk
                /\ should_break' = EarlyStop(pt, cfg.early_stop)
                /\ pc' = IF should_break' THEN "after_loop" ELSE "save"
       ELSE /\ pc' = "save"
            /\ UNCHANGED <<progress_tracker, should_break, disk>>
    /\ UNCHANGED <<flags, tune_vars, ranks, datasource, cfg, validation_field, epochs, received_sigint, handler_installed,
                   sigints, sigint_pc, batcher_step, effects, exit_status>>

\* lines 866-892: with a non-empty validation set check_progress_on_validation runs
\* and a stop request breaks out of the loop; without one the weights are saved.
\* An IndexError raised by a read of an empty log propagates out of train()
ValidationLogic ==
    /\ pc = "validate"
    /\ IF ShouldValidate /\ IndexErrorAt(progress_tracker, Self) # "none"
       THEN /\ progress_tracker' = TrackerAtIndexError(progress_tracker, Self)
            /\ disk' = IF /\ IndexErrorAt(progress_tracker, Self) # "improvement"
                          /\ ValidationImproved(progress_tracker, Self)
                          /\ IsCoordinator /\ ~skip_save_model
                       THEN SaveWeights(disk, progress_tracker)
                       ELSE disk
            /\ pc' = "index_error"
            /\ UNCHANGED should_break
       ELSE IF ShouldValidate
       THEN LET pt == CheckProgressOnValidation(progress_tracker, Self)
            IN  /\ progress_tracker' = pt
                /\ disk' = IF /\ ValidationImproved(progress_tracker, Self)
                              /\ IsCoordinator /\ ~skip_save_model
                           THEN SaveWeights(disk, progress_tracker)
                           ELSE disk
                /\ should_break' = EarlyStop(pt, cfg.early_stop)
                /\ pc' = IF should_break' THEN "after_loop" ELSE "save"
       ELSE /\ disk' = IF IsCoordinator /\ ~skip_save_model
                       THEN SaveWeights(disk, progress_tracker)
                       ELSE disk
            /\ pc' = "save"
            /\ UNCHANGED <<progress_tracker, should_break>>
    /\ UNCHANGED <<flags, tune_vars, ranks, datasource, cfg, validation_field, epochs, received_sigint, handler_installed,
                   sigints, sigint_pc, batcher_step, effects, exit_status>>

\* mutant of SaveProgress: every worker saves, not the coordinator only
SaveProgressOnEveryWorker ==
    /\ pc = "save"
    /\ disk' = IF ~skip_save_progress
               THEN [disk EXCEPT !.checkpoint_epoch = progress_tracker.epoch,
                                 !.tracker_saved = TRUE,
                                 !.tracker = progress_tracker]
               ELSE disk
    /\ effects' = Callback(effects, "on_epoch_end")
    /\ pc' = "loop"
    /\ UNCHANGED <<flags, tune_vars, ranks, datasource, cfg, validation_field, epochs, received_sigint, handler_installed,
                   sigints, sigint_pc, batcher_step, should_break, progress_tracker,
                   exit_status>>

\* lines 894-901: the checkpoint keyed by the epoch and the tracker snapshot,
\* then on_epoch_end
SaveProgress ==
    /\ pc = "save"
    /\ disk' = IF IsCoordinator /\ ~skip_save_progress
               THEN [disk EXCEPT !.checkpoint_epoch = progress_tracker.epoch,
                                 !.tracker_saved = TRUE,
                                 !.tracker = progress_tracker]
               ELSE disk
    /\ effects' = Callback(effects, "on_epoch_end")
    /\ pc' = "loop"
    /\ UNCHANGED <<flags, tune_vars, ranks, datasource, cfg, validation_field, epochs, received_sigint, handler_installed,
                   sigints, sigint_pc, batcher_step, should_break, progress_tracker,
                   exit_status>>

\* mutant of TrainReturn: train() returns without closing the log sinks
TrainReturnLeavesSinksOpen ==
    /\ pc = "after_loop"
    /\ pc' = "done"
    /\ UNCHANGED <<flags, tune_vars, ranks, datasource, cfg, validation_field, epochs, received_sigint, handler_installed,
                   sigints, sigint_pc, batcher_step, should_break, progress_tracker, disk,
                   effects, exit_status>>

\* lines 903-915: the log sinks are closed and train() returns
TrainReturn ==
    /\ pc = "after_loop"
    /\ pc' = "done"
    /\ effects' = [effects EXCEPT !.log_sinks_closed = effects.log_sinks]
    /\ UNCHANGED <<flags, tune_vars, ranks, datasource, cfg, validation_field, epochs, received_sigint, handler_installed,
                   sigints, sigint_pc, batcher_step, should_break, progress_tracker, disk,
                   exit_status>>

\* train() is between its setup and its return
Training == pc \in {"loop", "steps", "validate", "save", "save_tracker", "after_loop"}

\* at most this many SIGINTs are delivered
MaxSigints == 2

\* mutant of SetEpochsTo1OrQuit: every request is handled like the first one
SetEpochsTo1Always ==
    /\ Training
    /\ handler_installed
    /\ sigints < MaxSigints
    /\ sigints' = sigints + 1
    /\ epochs' = 1
    /\ received_sigint' = TRUE
    /\ sigint_pc' = IF received_sigint THEN sigint_pc ELSE pc
    /\ UNCHANGED <<flags, tune_vars, ranks, datasource, cfg, validation_field, handler_installed, pc, batcher_step,
                   should_break, progress_tracker, disk, effects, exit_status>>

\* set_epochs_to_1_or_quit (lines 1196-1204), run by a SIGINT once installed
SetEpochsTo1OrQuit ==
    /\ Training
    /\ handler_installed
    /\ sigints < MaxSigints
    /\ sigints' = sigints + 1
    /\ IF ~received_sigint
       THEN /\ epochs' = 1
            /\ received_sigint' = TRUE
            /\ sigint_pc' = pc
            /\ UNCHANGED <<pc, exit_status>>
       ELSE /\ pc' = "exited"
            /\ exit_status' = 1
            /\ UNCHANGED <<epochs, received_sigint, sigint_pc>>
    /\ UNCHANGED <<flags, tune_vars, ranks, datasource, cfg, validation_field, handler_installed, batcher_step,
                   should_break, progress_tracker, disk, effects>>

\* a SIGINT while train() runs on another thread than the main one: line 630 installed
\* no handler of the trainer, the signal is the main thread's concern
SigintNotHandled ==
    /\ Training
    /\ ~handler_installed
    /\ sigints < MaxSigints
    /\ sigints' = sigints + 1
    /\ UNCHANGED <<flags, tune_vars, ranks, datasource, cfg, validation_field, epochs, received_sigint, handler_installed,
                   sigint_pc, pc, batcher_step, should_break, progress_tracker, disk, effects, exit_status>>

(***************************************************************************)
(* Specifications                                                          *)
(***************************************************************************)

\* the configuration of a Trainer whose train() is not called
IdleConfig == CHOOSE c \in TrainConfigs : TRUE

\* a Trainer after construction, about to run tune_batch_size
InitTune ==
    /\ tune_in \in TuneInputs
    /\ skip_save_model = tune_in.flags_at_entry.skip_save_model
    /\ skip_save_progress = tune_in.flags_at_entry.skip_save_progress
    /\ skip_save_log = tune_in.flags_at_entry.skip_save_log
    /\ tune = TuneIdle
    /\ cfg = IdleConfig
    /\ validation_field = cfg.validation_field
    /\ ranks = NoRanks
    /\ datasource = NoDatasource
    /\ epochs = cfg.epochs
    /\ received_sigint = FALSE
    /\ handler_installed = FALSE
    /\ sigints = 0
    /\ sigint_pc = "none"
    /\ pc = "idle"
    /\ batcher_step = 0
    /\ should_break = FALSE
    /\ progress_tracker = NullTracker
    /\ disk = EmptyDisk
    /\ effects = NoEffects
    /\ exit_status = -1

NextTune == TuneEnter \/ TuneLoopHead \/ TuneTrial \/ TuneFinally

SpecTune == InitTune /\ [][NextTune]_vars

\* a Trainer after construction (lines 276-316), about to run train()
Init ==
    /\ cfg \in TrainConfigs
    /\ skip_save_model \in (IF cfg.coordinator THEN BOOLEAN ELSE {FALSE})
    /\ skip_save_progress \in (IF cfg.coordinator THEN BOOLEAN ELSE {FALSE})
    /\ skip_save_log = FALSE
    /\ tune_in = CHOOSE t \in TuneInputs : TRUE
    /\ tune = TuneIdle
    /\ validation_field = cfg.validation_field
    /\ ranks = NoRanks
    /\ datasource = NoDatasource
    /\ epochs = cfg.epochs
    /\ received_sigint = FALSE
    /\ handler_installed = FALSE
    /\ sigints = 0
    /\ sigint_pc = "none"
    /\ pc = "init"
    /\ batcher_step = 0
    /\ should_break = FALSE
    /\ progress_tracker = NullTracker
    /\ disk = EmptyDisk
    /\ effects = NoEffects
    /\ exit_status = -1

Next ==
    \/ TrainSetup
    \/ LoopHead
    \/ TrainStep
    \/ EpochEval
    \/ ValidationLogic
    \/ SaveProgress
    \/ TrainReturn
    \/ SetEpochsTo1OrQuit
    \/ SigintNotHandled

Spec == Init /\ [][Next]_vars

\* the configurations of the plateau controllers: reduce_learning_rate_on_plateau
\* 0.0, 0.5 and 1.0 (held as twice the value), increase_batch_size_on_plateau up to
\* 2, a maximum the doubled batch size exceeds (200) and one it reaches after two
\* increases (512); a disabled controller's other settings are never read
PlateauConfigs ==
    {c \in [epochs : {MaxEpochs},
            early_stop : {-1},
            validation_field : {COMBINED},
            validation_metric : {LOSS},
            reduce_learning_rate_on_plateau : {0, 1, 2},
            reduce_learning_rate_on_plateau_patience : 0 .. MaxPatience,
            reduce_learning_rate_eval_metric : {LOSS},
            reduce_learning_rate_eval_split : {TRAINING, VALIDATION},
            increase_batch_size_on_plateau : {0, 1, 2},
            increase_batch_size_on_plateau_patience : 0 .. MaxPatience,
            increase_batch_size_on_plateau_rate : {2},
            increase_batch_size_on_plateau_max : {200, 512},
            increase_batch_size_eval_metric : {LOSS},
            increase_batch_size_eval_split : {TRAINING, VALIDATION},
            validation_set : {"nonempty"},
            test_set : {"none"},
            metrics_excepted : {FALSE},
            output_features : {ModelOutputFeatures},
            loss_interned : {TRUE},
            resume : {FALSE},
            main_thread : {TRUE},
            coordinator : {TRUE}] :
        /\ c.reduce_learning_rate_on_plateau = 0 =>
              /\ c.reduce_learning_rate_on_plateau_patience = 0
              /\ c.reduce_learning_rate_eval_split = TRAINING
        /\ c.increase_batch_size_on_plateau = 0 =>
              /\ c.increase_batch_size_on_plateau_patience = 0
              /\ c.increase_batch_size_on_plateau_max = 512
              /\ c.increase_batch_size_eval_split = TRAINING}

\* a Trainer about to run train() with a validation set and plateau controllers
InitPlateau ==
    /\ cfg \in PlateauConfigs
    /\ skip_save_model = FALSE
    /\ skip_save_progress = FALSE
    /\ skip_save_log = FALSE
    /\ tune_in = CHOOSE t \in TuneInputs : TRUE
    /\ tune = TuneIdle
    /\ validation_field = cfg.validation_field
    /\ ranks = NoRanks
    /\ datasource = NoDatasource
    /\ epochs = cfg.epochs
    /\ received_sigint = FALSE
    /\ handler_installed = FALSE
    /\ sigints = 0
    /\ sigint_pc = "none"
    /\ pc = "init"
    /\ batcher_step = 0
    /\ should_break = FALSE
    /\ progress_tracker = NullTracker
    /\ disk = EmptyDisk
    /\ effects = NoEffects
    /\ exit_status = -1

\* train() without interrupts
NextTrain ==
    \/ TrainSetup
    \/ LoopHead
    \/ TrainStep
    \/ EpochEval
    \/ ValidationLogic
    \/ SaveProgress
    \/ TrainReturn

SpecPlateau == InitPlateau /\ [][NextTrain]_vars

(***************************************************************************)
(* Properties of tune_batch_size, checked under SpecTune                   *)
(***************************************************************************)

\* the dataset is larger than every size the search can probe
LargeDataset == tune_in.len_training_set = 100000

\* C1: with a trial that succeeds at every size <= T and runs out of memory above
\* it, on a dataset larger than every probed size, the size tune_batch_size
\* returns is one at which a trial succeeds, that is a size <= T; for T = 500 and
\* the default budgets it lies in [256, 500].
C1_ReturnsWorkingSize ==
    (/\ tune.pc = "returned"
     /\ tune_in.trial = "threshold"
     /\ tune_in.oom_above >= StartBatchSize
     /\ LargeDataset)
    => /\ tune.batch_size <= tune_in.oom_above
       /\ (/\ tune_in.oom_above = 500
           /\ tune_in.max_trials = DefaultMaxTrials
           /\ tune_in.halving_limit = DefaultHalvingLimit)
          => (256 <= tune.batch_size /\ tune.batch_size <= 500)

\* C2: whatever the dataset size, the budgets and the outcomes of the trials, the
\* size tune_batch_size returns does not exceed len(training_set).
C2_ResultWithinDataset ==
    tune.pc = "returned" => tune.batch_size <= tune_in.len_training_set

\* the three flags as a record
CurrentFlags ==
    [skip_save_model |-> skip_save_model,
     skip_save_progress |-> skip_save_progress,
     skip_save_log |-> skip_save_log]

\* C3: when tune_batch_size has returned or has let an exception propagate, the
\* three skip_save_* flags equal their values at entry; while a trial runs all
\* three are True.
C3_FlagsRestored ==
    /\ tune.pc \in {"returned", "raised"} => CurrentFlags = tune_in.flags_at_entry
    /\ tune.pc = "trial" =>
          (skip_save_model /\ skip_save_progress /\ skip_save_log)

\* C3 witness: a trial raised an exception that is no RuntimeError, it propagated,
\* and the flags, all False at entry and True during the trials, are False again
C3_Witness ==
    /\ tune.pc = "raised"
    /\ tune.exc = "error"
    /\ tune.count >= 1
    /\ ~skip_save_model /\ ~skip_save_progress /\ ~skip_save_log

(***************************************************************************)
(* Properties of train(), checked under Spec                               *)
(***************************************************************************)

\* the log of the validation metric: one value per evaluated epoch
ValidationLog ==
    progress_tracker.vali_metrics[cfg.validation_field][cfg.validation_metric]

\* the validation metric improved at the first evaluated epoch (any value improves
\* on the initial worst value) and at no later one
ImprovedAtFirstEpochOnly ==
    /\ Len(ValidationLog) >= 1
    /\ \A i \in 2 .. Len(ValidationLog) :
          \A j \in 1 .. (i - 1) :
             ~Improved(cfg.validation_metric, ValidationLog[i], ValidationLog[j])

\* C4: with a non-empty validation set and early_stop = k > 0, when the validation
\* metric improves at the first evaluated epoch and never again, the epoch loop is
\* left at the first epoch end at which last_improvement equals k: no epoch beyond
\* epoch 1 + k is started and no step beyond its last one runs, and a loop left by
\* the stop request was left with last_improvement = k after exactly k further
\* epochs.
C4_EarlyStopAfterKEpochs ==
    (/\ ShouldValidate
     /\ cfg.early_stop > 0
     /\ ImprovedAtFirstEpochOnly)
    => /\ progress_tracker.epoch <= 1 + cfg.early_stop
       /\ progress_tracker.steps <= (1 + cfg.early_stop) * StepsPerEpoch
       /\ pc \in {"loop", "steps", "save"} =>
             progress_tracker.epoch < 1 + cfg.early_stop
       /\ (pc \in {"after_loop", "done"} /\ should_break) =>
             /\ progress_tracker.last_improvement = cfg.early_stop
             /\ progress_tracker.epoch = 1 + cfg.early_stop
             /\ progress_tracker.steps = (1 + cfg.early_stop) * StepsPerEpoch

\* C4 witness: early_stop = 1 with an epoch budget of 3: the metric improved at
\* epoch 1 only and train() returned after epoch 2, one epoch short of the budget
C4_Witness ==
    /\ pc = "done"
    /\ ShouldValidate
    /\ cfg.early_stop = 1
    /\ cfg.epochs = 3
    /\ ~received_sigint
    /\ ImprovedAtFirstEpochOnly
    /\ should_break
    /\ progress_tracker.epoch = 2
    /\ progress_tracker.last_improvement = 1

\* check_progress_on_validation has run for the tracker's current epoch and its
\* result is in should_break
ValidationChecked == ShouldValidate /\ pc \in {"save", "after_loop"}

\* C5: at the end of an epoch with a validation set, check_progress_on_validation
\* signals stop if and only if early_stop >= 0 (0 included) and
\* epoch - last_improvement_epoch has reached early_stop; with early_stop < 0 it
\* never signals stop.
C5_StopIffReached ==
    ValidationChecked =>
       (should_break <=>
           /\ cfg.early_stop >= 0
           /\ progress_tracker.epoch - progress_tracker.last_improvement_epoch
                 >= cfg.early_stop)

\* C6: when early stop fires for an epoch, the loop is left only after that epoch's
\* bookkeeping: on the coordinator with skip_save_progress false the checkpoint
\* keyed by that epoch and the tracker snapshot are on disk.
C6_StopAfterBookkeeping ==
    (/\ pc \in {"after_loop", "done"}
     /\ should_break
     /\ IsCoordinator
     /\ ~skip_save_progress)
    => /\ disk.checkpoint_epoch = progress_tracker.epoch
       /\ disk.tracker_saved
       /\ disk.tracker = progress_tracker

\* the log of the training split's combined loss: one value per evaluated epoch
TrainLog == progress_tracker.train_metrics[COMBINED][LOSS]

\* the first interrupt request arrived while an epoch was running: during its steps,
\* before its validation logic or before its progress was saved
InterruptedInEpoch == received_sigint /\ sigint_pc \in {"steps", "validate", "save"}

\* C7: after the first interrupt request the running epoch is completed, with its
\* remaining steps, its evaluation and the persistence of checkpoint and tracker,
\* and no further epoch starts.
C7_InterruptedEpochCompletes ==
    /\ (InterruptedInEpoch /\ pc \in {"after_loop", "done"}) =>
          /\ progress_tracker.steps = progress_tracker.epoch * StepsPerEpoch
          /\ Len(TrainLog) = progress_tracker.epoch
          /\ (IsCoordinator /\ ~skip_save_progress) =>
                /\ disk.checkpoint_epoch = progress_tracker.epoch
                /\ disk.tracker = progress_tracker
    /\ (InterruptedInEpoch /\ pc = "loop") => ~(progress_tracker.epoch < epochs)

\* What holds of C7 on the code: the interrupted epoch runs its remaining steps and
\* its evaluation, no further epoch starts, and checkpoint and tracker are
\* persisted unless the stop request of that epoch left the loop first.
InterruptedEpochCompletesUnlessStopped ==
    /\ (InterruptedInEpoch /\ pc \in {"after_loop", "done"}) =>
          /\ progress_tracker.steps = progress_tracker.epoch * StepsPerEpoch
          /\ Len(TrainLog) = progress_tracker.epoch
          /\ (IsCoordinator /\ ~skip_save_progress /\ ~should_break) =>
                /\ disk.checkpoint_epoch = progress_tracker.epoch
                /\ disk.tracker = progress_tracker
    /\ (InterruptedInEpoch /\ pc = "loop") => ~(progress_tracker.epoch < epochs)

\* C8: a second interrupt request ends the process at once with exit status 1, and
\* nothing is written to disk by it or after it.
C8_SecondInterruptExits ==
    [][/\ (received_sigint /\ handler_installed /\ sigints' = sigints + 1) =>
             (pc' = "exited" /\ exit_status' = 1 /\ disk' = disk)
       /\ pc = "exited" => (pc' = "exited" /\ disk' = disk)
       /\ (exit_status' = 1) => (pc' = "exited" /\ sigints' = 2)]_vars

\* C8 witness: the process exited on the second request while the checkpoint of
\* the epoch just evaluated was still to be written, and it was not written
C8_Witness ==
    /\ pc = "exited"
    /\ exit_status = 1
    /\ sigints = 2
    /\ IsCoordinator /\ ~skip_save_progress
    /\ progress_tracker.epoch = 1
    /\ Len(TrainLog) = 1
    /\ disk.checkpoint_epoch = 0
    /\ ~disk.tracker_saved

\* C9: the handler is installed if and only if train() runs on the main thread; on
\* another thread interrupts change neither the epoch budget nor received_sigint.
C9_HandlerOnMainThreadOnly ==
    /\ pc = "init" => ~handler_installed
    /\ pc # "init" => (handler_installed <=> cfg.main_thread)
    /\ ~cfg.main_thread => (epochs = cfg.epochs /\ ~received_sigint /\ pc # "exited")

\* C9 witness: train() ran on another thread, two SIGINTs arrived during the first
\* epoch, and the full budget of epochs was trained
C9_Witness ==
    /\ ~cfg.main_thread
    /\ sigints = 2
    /\ pc = "done"
    /\ cfg.epochs = MaxEpochs
    /\ progress_tracker.epoch = cfg.epochs
    /\ progress_tracker.steps = cfg.epochs * StepsPerEpoch

\* the log the learning-rate controller watches
WatchedLog ==
    SplitMetrics(progress_tracker, cfg.reduce_learning_rate_eval_split)
        [cfg.validation_field][cfg.reduce_learning_rate_eval_metric]

\* the value of epoch i improved on no earlier value of the log
NoImprovementAt(log, i) ==
    /\ i >= 2
    /\ \A j \in 1 .. (i - 1) : ~Improved(cfg.reduce_learning_rate_eval_metric, log[i], log[j])

\* epoch n ends a run of patience + 1 consecutive epochs without improvement
PlateauEndsAt(log, n) ==
    /\ n <= Len(log)
    /\ n - cfg.reduce_learning_rate_on_plateau_patience >= 2
    /\ \A i \in (n - cfg.reduce_learning_rate_on_plateau_patience) .. n :
          NoImprovementAt(log, i)

\* check_progress_on_validation has run for epoch n
CheckedEpoch(n) ==
    /\ pc # "exited"
    /\ \/ progress_tracker.epoch > n
       \/ progress_tracker.epoch = n /\ pc \in {"save", "loop", "after_loop", "done"}

\* C10: in a fresh run with a validation set and reduce_learning_rate_on_plateau = 1,
\* once the watched metric has not improved for patience + 1 consecutive epochs
\* the tracker's learning rate has been reduced exactly once, by exactly the factor
\* reduce_learning_rate_on_plateau_rate, and num_reductions_learning_rate is 1; and
\* once num_reductions_learning_rate has reached the configured maximum no step
\* changes the learning rate or the count again.
C10_ReducedExactlyOnce ==
    /\ [](/\ (/\ ShouldValidate
              /\ cfg.reduce_learning_rate_on_plateau = 2
              /\ \E n \in 1 .. Len(WatchedLog) :
                    PlateauEndsAt(WatchedLog, n) /\ CheckedEpoch(n))
             => /\ progress_tracker.num_reductions_learning_rate = 1
                /\ progress_tracker.learning_rate = TimesRate(BaseLearningRate)
          /\ (progress_tracker.num_reductions_learning_rate = 0
                 /\ pc \notin {"init", "raised"})
                => progress_tracker.learning_rate = BaseLearningRate)
    /\ [][(/\ pc # "init"
           /\ AtLeast(progress_tracker.num_reductions_learning_rate,
                      cfg.reduce_learning_rate_on_plateau))
          => /\ progress_tracker'.learning_rate = progress_tracker.learning_rate
             /\ progress_tracker'.num_reductions_learning_rate
                   = progress_tracker.num_reductions_learning_rate]_vars

\* C10 witness: patience 1, the watched metric improved at epoch 1 and not at
\* epochs 2 and 3, and the learning rate was halved once
C10_Witness ==
    /\ ShouldValidate
    /\ cfg.reduce_learning_rate_on_plateau = 2
    /\ cfg.reduce_learning_rate_on_plateau_patience = 1
    /\ Len(WatchedLog) = 3
    /\ PlateauEndsAt(WatchedLog, 3)
    /\ CheckedEpoch(3)
    /\ progress_tracker.num_reductions_learning_rate = 1
    /\ progress_tracker.learning_rate = TimesRate(BaseLearningRate)
    /\ progress_tracker.learning_rate < BaseLearningRate

\* runs of two epochs with and without a validation and a test set, in which an
\* evaluation may leave out the metrics of the output features; the validation
\* field is "combined" or the output feature, and the learning-rate controller is
\* off or watches the training split; a run that does not validate (no validation
\* set, or an empty one) has early stop and both controllers set to act at once
LogConfigs ==
    {c \in
    [epochs : {2},
     early_stop : {-1, 1},
     validation_field : {COMBINED, "y"},
     validation_metric : {LOSS},
     reduce_learning_rate_on_plateau : {0, 2},
     reduce_learning_rate_on_plateau_patience : {0},
     reduce_learning_rate_eval_metric : {LOSS},
     reduce_learning_rate_eval_split : {TRAINING},
     increase_batch_size_on_plateau : {0, 2},
     increase_batch_size_on_plateau_patience : {0},
     increase_batch_size_on_plateau_rate : {2},
     increase_batch_size_on_plateau_max : {512},
     increase_batch_size_eval_metric : {LOSS},
     increase_batch_size_eval_split : {TRAINING},
     validation_set : {"none", "empty", "nonempty"},
     test_set : {"none", "nonempty"},
     metrics_excepted : {TRUE},
     output_features : {ModelOutputFeatures},
     loss_interned : {TRUE},
     resume : {FALSE},
     main_thread : {TRUE},
     coordinator : {TRUE}] :
        IF c.validation_set = "nonempty"
        THEN c.early_stop = -1 /\ c.increase_batch_size_on_plateau = 0
        ELSE /\ c.validation_field = COMBINED
             /\ c.early_stop = 1
             /\ c.reduce_learning_rate_on_plateau = 2
             /\ c.increase_batch_size_on_plateau = 2}

\* a Trainer about to run train() on a model whose metrics may be excepted
InitLogs ==
    /\ cfg \in LogConfigs
    /\ skip_save_model = FALSE
    /\ skip_save_progress = FALSE
    /\ skip_save_log = FALSE
    /\ tune_in = CHOOSE t \in TuneInputs : TRUE
    /\ tune = TuneIdle
    /\ validation_field = cfg.validation_field
    /\ ranks = NoRanks
    /\ datasource = NoDatasource
    /\ epochs = cfg.epochs
    /\ received_sigint = FALSE
    /\ handler_installed = FALSE
    /\ sigints = 0
    /\ sigint_pc = "none"
    /\ pc = "init"
    /\ batcher_step = 0
    /\ should_break = FALSE
    /\ progress_tracker = NullTracker
    /\ disk = EmptyDisk
    /\ effects = NoEffects
    /\ exit_status = -1

SpecLogs == InitLogs /\ [][NextTrain]_vars

(***************************************************************************)
(* Properties of the plateau controllers, checked under SpecPlateau        *)
(***************************************************************************)

\* train() has built the progress tracker
TrackerBuilt == pc \notin {"idle", "init", "raised"}

\* C11: in every reachable progress-tracker state num_reductions_learning_rate <=
\* reduce_learning_rate_on_plateau and num_increases_batch_size <=
\* increase_batch_size_on_plateau, for every value of the maxima the configuration
\* accepts (reduce_learning_rate_on_plateau is held as twice its value).
C11_TriggerCountsBounded ==
    TrackerBuilt =>
        /\ 2 * progress_tracker.num_reductions_learning_rate
              <= cfg.reduce_learning_rate_on_plateau
        /\ progress_tracker.num_increases_batch_size <= cfg.increase_batch_size_on_plateau

\* the fields of the learning-rate controller
RateFields(pt) ==
    <<pt.best_reduce_learning_rate_eval_metric,
      pt.last_reduce_learning_rate_eval_metric_improvement,
      pt.last_learning_rate_reduction_epoch, pt.last_learning_rate_reduction,
      pt.num_reductions_learning_rate, pt.learning_rate>>

\* the fields of the batch-size controller
BatchFields(pt) ==
    <<pt.best_increase_batch_size_eval_metric,
      pt.last_increase_batch_size_eval_metric_improvement,
      pt.last_increase_batch_size_epoch, pt.last_increase_batch_size,
      pt.num_increases_batch_size, pt.batch_size>>

\* C12: each plateau controller fires at most once per epoch (its count grows by
\* at most one, and only in the epoch's validation logic), and the controllers are
\* independent: what an epoch leaves in the batch-size controller's fields is
\* what it leaves when the learning-rate controller does not run, and conversely;
\* both may fire in the same epoch (C12_Witness).
C12_ControllersIndependent ==
    /\ [](pc = "validate" =>
            LET x == RecordImprovement(progress_tracker, cfg)
                both == CheckProgressOnValidation(progress_tracker, cfg)
            IN  /\ BatchFields(both) = BatchFields(IncreasePlateauLogic(x, cfg))
                /\ RateFields(both) = RateFields(ReducePlateauLogic(x, cfg))
                /\ BatchFields(ReducePlateauLogic(x, cfg)) = BatchFields(x)
                /\ RateFields(IncreasePlateauLogic(x, cfg)) = RateFields(x))
    /\ [][/\ progress_tracker'.num_reductions_learning_rate
                 # progress_tracker.num_reductions_learning_rate
              => /\ pc = "validate"
                 /\ progress_tracker'.num_reductions_learning_rate
                       = progress_tracker.num_reductions_learning_rate + 1
          /\ progress_tracker'.num_increases_batch_size
                 # progress_tracker.num_increases_batch_size
              => /\ pc = "validate"
                 /\ progress_tracker'.num_increases_batch_size
                       = progress_tracker.num_increases_batch_size + 1
          /\ (pc = "validate" /\ pc' # pc)
              => progress_tracker'.epoch = progress_tracker.epoch]_vars

\* C12 witness: both controllers fired in the same epoch
C12_Witness ==
    /\ pc = "save"
    /\ progress_tracker.epoch >= 2
    /\ progress_tracker.num_reductions_learning_rate >= 1
    /\ progress_tracker.num_increases_batch_size >= 1
    /\ progress_tracker.last_learning_rate_reduction_epoch = progress_tracker.epoch
    /\ progress_tracker.last_increase_batch_size_epoch = progress_tracker.epoch
    /\ progress_tracker.learning_rate < BaseLearningRate
    /\ progress_tracker.batch_size > ConfigBatchSize

\* C13: whenever the batch-size controller fires, the new batch_size is
\* min(rate * old batch_size, increase_batch_size_on_plateau_max), hence at most the
\* maximum, and the epoch did not start with batch_size equal to the maximum.
C13_IncreaseCapped ==
    [][progress_tracker'.num_increases_batch_size
          > progress_tracker.num_increases_batch_size
       => /\ progress_tracker'.batch_size
                = Min(cfg.increase_batch_size_on_plateau_rate
                          * progress_tracker.batch_size,
                      cfg.increase_batch_size_on_plateau_max)
          /\ progress_tracker'.batch_size <= cfg.increase_batch_size_on_plateau_max
          /\ progress_tracker.batch_size # cfg.increase_batch_size_on_plateau_max]_vars

\* C13 witness: the doubled batch size was capped at a maximum of 200, and the
\* next epoch, which started at the maximum with an increase left, left it alone
C13_Witness ==
    /\ pc = "save"
    /\ cfg.increase_batch_size_on_plateau = 2
    /\ cfg.increase_batch_size_on_plateau_max = 200
    /\ progress_tracker.batch_size = 200
    /\ progress_tracker.num_increases_batch_size = 1
    /\ progress_tracker.last_increase_batch_size_epoch = 2
    /\ progress_tracker.epoch = 3
    /\ ~Improved(LOSS,
                 Last(SplitMetrics(progress_tracker, cfg.increase_batch_size_eval_split)
                          [COMBINED][LOSS]),
                 progress_tracker.best_increase_batch_size_eval_metric)

(***************************************************************************)
(* Properties of the progress tracker and of what train() writes           *)
(***************************************************************************)

\* last_improvement is epoch - last_improvement_epoch in tracker pt
Recomputed(pt) == pt.last_improvement = pt.epoch - pt.last_improvement_epoch

\* C14: at the end of every epoch's bookkeeping, and so in every persisted
\* snapshot of the progress tracker, last_improvement = epoch -
\* last_improvement_epoch, in runs with and without a validation set.
C14_LastImprovementRecomputed ==
    /\ pc = "save" => Recomputed(progress_tracker)
    /\ disk.tracker_saved => Recomputed(disk.tracker)

\* the part of C14 that holds: runs with a non-empty validation set
LastImprovementRecomputedWhenValidating ==
    ShouldValidate => C14_LastImprovementRecomputed

\* the three metric logs of tracker pt
MetricLogs(pt) == {pt.train_metrics, pt.vali_metrics, pt.test_metrics}

\* the keys the model declares: its output features plus combined, and under each
\* the feature's metric names
DeclaredKeys(log) ==
    /\ DOMAIN log = OutputFeatures \cup {COMBINED}
    /\ \A f \in DOMAIN log :
          DOMAIN log[f] = (IF f = COMBINED THEN {LOSS} ELSE MetricFunctions(f))

\* sequence t is sequence s with values appended
Extends(t, s) == Len(t) >= Len(s) /\ SubSeq(t, 1, Len(s)) = s

\* log t has the keys of log s and extends each of its sequences
LogExtends(t, s) ==
    /\ DOMAIN t = DOMAIN s
    /\ \A f \in DOMAIN s :
          /\ DOMAIN t[f] = DOMAIN s[f]
          /\ \A m \in DOMAIN s[f] : Extends(t[f][m], s[f][m])

\* C15: in every reachable state of a fresh run the train, validation and test
\* logs have the same key structure, the model's output features plus combined
\* with the declared metric names under each, and recording an epoch's results
\* appends values only: no key is added or removed.
C15_LogsShareKeys ==
    /\ [](TrackerBuilt => \A log \in MetricLogs(progress_tracker) : DeclaredKeys(log))
    /\ [][TrackerBuilt =>
            /\ LogExtends(progress_tracker'.train_metrics, progress_tracker.train_metrics)
            /\ LogExtends(progress_tracker'.vali_metrics, progress_tracker.vali_metrics)
            /\ LogExtends(progress_tracker'.test_metrics, progress_tracker.test_metrics)]_vars

\* C15 witness: two epochs recorded on the three splits, one validation result
\* without the output feature's metrics, so that its loss log is the shorter one
C15_Witness ==
    /\ pc = "done"
    /\ progress_tracker.epoch = 2
    /\ Len(progress_tracker.train_metrics[COMBINED][LOSS]) = 2
    /\ Len(progress_tracker.test_metrics[COMBINED][LOSS]) = 2
    /\ Len(progress_tracker.vali_metrics[COMBINED][LOSS]) = 2
    /\ \E f \in OutputFeatures : Len(progress_tracker.vali_metrics[f][LOSS]) = 1
    /\ \A log \in MetricLogs(progress_tracker) : DeclaredKeys(log)

TrackerRoundTripOfFreshTracker ==
    pc = "loop" /\ progress_tracker.epoch = 0
        => TrackerLoad(TrackerSave(progress_tracker)) = FreshTracker(cfg)

\* C17: in a fresh run on the coordinator with no validation set, no interrupt
\* and skip_save_model false, at completion progress_tracker.epoch = epochs and
\* progress_tracker.steps = epochs * steps_per_epoch, and the model weights were
\* written exactly once after each epoch: once by the validation logic of every
\* epoch and by no other step.
C17_WeightsAfterEveryEpoch ==
    /\ []((/\ pc = "done"
            /\ ~ShouldValidate /\ IsCoordinator /\ ~skip_save_model
            /\ ~received_sigint)
           => /\ progress_tracker.epoch = cfg.epochs
              /\ progress_tracker.steps = cfg.epochs * StepsPerEpoch
              /\ disk.weights_writes = cfg.epochs
              /\ disk.weights_epoch = cfg.epochs)
    /\ [][(~ShouldValidate /\ IsCoordinator /\ ~skip_save_model)
          => /\ disk'.weights_writes # disk.weights_writes
                 => /\ pc = "validate" /\ pc' = "save"
                    /\ disk'.weights_writes = disk.weights_writes + 1
                    /\ disk'.weights_epoch = progress_tracker.epoch
             /\ (pc = "validate" /\ pc' = "save")
                 => disk'.weights_writes = disk.weights_writes + 1]_vars

\* C17 witness: a completed run of the largest epoch budget without a validation
\* set, with one write of the weights per epoch
C17_Witness ==
    /\ pc = "done"
    /\ cfg.validation_set = "none"
    /\ IsCoordinator /\ ~skip_save_model /\ ~received_sigint
    /\ cfg.epochs = MaxEpochs
    /\ progress_tracker.epoch = MaxEpochs
    /\ progress_tracker.steps = MaxEpochs * StepsPerEpoch
    /\ disk.weights_writes = MaxEpochs

\* the validation logic of the current epoch is running its step
ValidationStep == pc = "validate" /\ pc' \in {"save", "after_loop"}

\* C18: with a non-empty validation set the model weights are written in an epoch
\* if and only if that epoch's validation metric improved on best_eval_metric, the
\* worker is the coordinator and skip_save_model is false; with skip_save_model
\* true the model weights are never written.
C18_WeightsIffImproved ==
    /\ [](skip_save_model => disk.weights_writes = 0)
    /\ [][ShouldValidate
          => /\ disk'.weights_writes \in {disk.weights_writes, disk.weights_writes + 1}
             /\ disk'.weights_writes # disk.weights_writes
                 <=> /\ ValidationStep
                     /\ Improved(cfg.validation_metric, Last(ValidationLog),
                                 progress_tracker.best_eval_metric)
                     /\ IsCoordinator
                     /\ ~skip_save_model]_vars

\* C18 witness: the weights were written in epoch 1, whose value improved on the
\* initial one, and not in epoch 2, whose value equals the best one
C18_Witness ==
    /\ ShouldValidate /\ IsCoordinator /\ ~skip_save_model
    /\ pc = "save"
    /\ progress_tracker.epoch = 2
    /\ ValidationLog[1] = ValidationLog[2]
    /\ disk.weights_writes = 1
    /\ disk.weights_epoch = 1

C20_ErrorBeforeSideEffects ==
    pc = "raised" =>
        /\ ~handler_installed
        /\ effects = NoEffects
        /\ disk = EmptyDisk
        /\ progress_tracker = NullTracker

\* the part of C20 that holds: every side effect but the interrupt handler
ErrorBeforeSetupEffects ==
    pc = "raised" =>
        /\ effects = NoEffects
        /\ disk = EmptyDisk
        /\ progress_tracker = NullTracker
        /\ handler_installed <=> cfg.main_thread

(***************************************************************************)
(* The search of tune_batch_size, checked under SpecTuneLive               *)
(***************************************************************************)

\* tune_batch_size keeps running until it returns or raises
SpecTuneLive == InitTune /\ [][NextTune]_vars /\ WF_vars(NextTune)

\* C27: after an out-of-memory failure at size h that follows a successful trial
\* at size l < h, the search continues by bisection: unless h - l <= 1 or the
\* halving budget is spent, the next trial runs at a size strictly between l and h.
C27_BisectionAfterFailure ==
    [][/\ tune.pc = "trial"
       /\ tune'.outcome = "oom"
       /\ tune'.trials_failed = tune.trials_failed + 1
       /\ 0 < tune.last_ok
       /\ tune.last_ok < tune.batch_size
       /\ tune.batch_size - tune.last_ok > 1
       /\ tune'.halving_count < tune_in.halving_limit
       => /\ tune'.pc = "loop"
          /\ tune.last_ok < tune'.batch_size
          /\ tune'.batch_size < tune.batch_size]_vars

\* tune_batch_size returned or raised
TuneDone == tune.pc \in {"returned", "raised"}

\* C28: tune_batch_size terminates for every dataset size and every pattern of
\* trial success and out-of-memory failure, after at most max(1, max_trials)
\* successful trials and at most halving_limit failed trials.
C28_TuneTerminates ==
    /\ <>TuneDone
    /\ [](/\ tune.trials_ok <= Max(1, tune_in.max_trials)
          /\ tune.trials_failed <= tune_in.halving_limit)

\* the search ended with a failure after three successes, on a dataset too large
\* to stop it and within both budgets
C28_Witness ==
    /\ tune.pc = "returned"
    /\ tune_in.len_training_set = 100000
    /\ tune.trials_ok = 3
    /\ tune.trials_ok < tune_in.max_trials
    /\ tune.trials_failed = 1
    /\ tune.trials_failed < tune_in.halving_limit

\* the trial budget ended the search
C28_WitnessTrialBudget ==
    /\ tune.pc = "returned"
    /\ tune_in.max_trials = 2
    /\ tune.trials_ok = 2
    /\ tune.trials_failed = 0

(***************************************************************************)
(* The checks of validation_field and validation_metric, over models with  *)
(* one or two output features (SpecValidation)                             *)
(***************************************************************************)

ACCURACY == "accuracy"

\* the models: one or two output features, each with its loss, its accuracy or both
Models ==
    UNION {[D -> (SUBSET {LOSS, ACCURACY}) \ {{}}] : D \in (SUBSET {"y", "w"}) \ {{}}}

\* a Trainer after construction (lines 276-316) with the three flags off, nothing
\* run and nothing on disk; cfg is chosen before
ConstructedTrainer ==
    /\ skip_save_model = FALSE
    /\ skip_save_progress = FALSE
    /\ skip_save_log = FALSE
    /\ tune_in = CHOOSE t \in TuneInputs : TRUE
    /\ tune = TuneIdle
    /\ datasource = NoDatasource
    /\ validation_field = cfg.validation_field
    /\ epochs = cfg.epochs
    /\ received_sigint = FALSE
    /\ handler_installed = FALSE
    /\ sigints = 0
    /\ sigint_pc = "none"
    /\ pc = "init"
    /\ batcher_step = 0
    /\ should_break = FALSE
    /\ progress_tracker = NullTracker
    /\ disk = EmptyDisk
    /\ effects = NoEffects
    /\ exit_status = -1

\* the same, as the only process of the run
Constructed ==
    /\ ConstructedTrainer
    /\ ranks = NoRanks

\* every validation field (the two features, "combined", an undeclared name) and
\* metric on every model; a metric "loss" is the object LOSS or an equal string
ValidationConfigs ==
    {[(CHOOSE c \in LogConfigs : TRUE) EXCEPT
          !.output_features = of, !.validation_field = f,
          !.validation_metric = m, !.loss_interned = i] :
        of \in Models, f \in {COMBINED, "y", "w", "z"},
        m \in {LOSS, ACCURACY}, i \in BOOLEAN}

InitValidation ==
    /\ cfg \in {c \in ValidationConfigs : c.validation_metric # LOSS => c.loss_interned}
    /\ Constructed

\* the setup of train() alone
SpecValidation == InitValidation /\ [][TrainSetup]_vars

\* the only output feature of a model with one
OnlyOutputFeature(c) == CHOOSE f \in DOMAIN c.output_features : TRUE

\* "combined" with a metric other than the loss, on a model whose only output
\* feature declares that metric
CombinedReplaceable(c) ==
    /\ c.validation_field = COMBINED
    /\ c.validation_metric # LOSS
    /\ Cardinality(DOMAIN c.output_features) = 1
    /\ c.validation_metric \in c.output_features[OnlyOutputFeature(c)]

\* the metrics declared for a validation field that is "combined" or a feature
DeclaredMetrics(c) ==
    IF c.validation_field = COMBINED THEN {LOSS} ELSE c.output_features[c.validation_field]

\* C21: train() raises ValueError when validation_field is neither "combined" nor
\* an output feature of the model, and when validation_metric is not a metric
\* declared for the validation field; except that "combined" with a non-loss
\* metric, on a model whose only output feature declares that metric, is replaced
\* by that feature and training proceeds.
C21_InvalidFieldOrMetricRaises ==
    pc \in {"loop", "raised"} =>
        IF CombinedReplaceable(cfg)
        THEN pc = "loop" /\ validation_field = OnlyOutputFeature(cfg)
        ELSE pc = "raised" <=>
                \/ cfg.validation_field \notin DOMAIN cfg.output_features \cup {COMBINED}
                \/ cfg.validation_metric \notin DeclaredMetrics(cfg)

\* "combined" was replaced by the only output feature, and train() went on
C21_Witness ==
    /\ pc = "loop"
    /\ cfg.validation_field = COMBINED
    /\ cfg.validation_metric = ACCURACY
    /\ validation_field = "y"

(***************************************************************************)
(* A run of train() resumed from what an earlier run persisted (SpecResume) *)
(***************************************************************************)

\* the configurations of the earlier run: one or two epochs, early stop off or
\* after one epoch, both plateau controllers watching the training split without
\* patience, so that the persisted learning rate and batch size may differ from
\* the configured ones; saved_tracker is the tracker file that train() finds
ResumeConfigs ==
    [epochs : {1, 2},
     early_stop : {-1, 1},
     validation_field : {COMBINED},
     validation_metric : {LOSS},
     reduce_learning_rate_on_plateau : {2},
     reduce_learning_rate_on_plateau_patience : {0},
     reduce_learning_rate_eval_metric : {LOSS},
     reduce_learning_rate_eval_split : {TRAINING},
     increase_batch_size_on_plateau : {2},
     increase_batch_size_on_plateau_patience : {0},
     increase_batch_size_on_plateau_rate : {2},
     increase_batch_size_on_plateau_max : {512},
     increase_batch_size_eval_metric : {LOSS},
     increase_batch_size_eval_split : {TRAINING},
     validation_set : {"nonempty"},
     test_set : {"none"},
     metrics_excepted : {FALSE},
     output_features : {ModelOutputFeatures},
     loss_interned : {TRUE},
     resume : {FALSE},
     saved_tracker : {NullTracker},
     main_thread : {TRUE},
     coordinator : {TRUE}]

InitResume ==
    /\ cfg \in ResumeConfigs
    /\ Constructed

\* after train() returned, a new Trainer is constructed with resume on the same
\* save_path (lines 276-316) and train() is called again: the files stay, the
\* Trainer's and the run's state start anew
ResumeTraining ==
    /\ pc = "done"
    /\ ~cfg.resume
    /\ disk.tracker_saved
    /\ \E e \in 1 .. MaxEpochs :
          /\ cfg' = [cfg EXCEPT !.resume = TRUE, !.epochs = e,
                                !.saved_tracker = disk.tracker]
          /\ epochs' = e
    /\ validation_field' = cfg.validation_field
    /\ pc' = "init"
    /\ progress_tracker' = NullTracker
    /\ effects' = NoEffects
    /\ batcher_step' = 0
    /\ should_break' = FALSE
    /\ handler_installed' = FALSE
    /\ UNCHANGED <<flags, tune_vars, ranks, datasource, received_sigint, sigints, sigint_pc, disk, exit_status>>

NextResume == NextTrain \/ ResumeTraining

SpecResume == InitResume /\ [][NextResume]_vars

\* C22: with resume set, train() uses the persisted progress tracker instead of a
\* fresh one and restores the model and the optimizer from the latest checkpoint
\* before the first step; the first epoch run is the tracker's epoch, with the
\* tracker's batch size and learning rate; and when no early stop ended the run,
\* exactly epochs - tracker.epoch epochs were run, none when tracker.epoch >= epochs.
C22_ResumeContinuesFromTracker ==
    cfg.resume =>
        /\ pc = "loop" /\ effects.epochs_started = 0 =>
              /\ progress_tracker = cfg.saved_tracker
              /\ effects.checkpoint_loaded
        /\ effects.epochs_started = 1 /\ pc = "steps" =>
              /\ effects.checkpoint_loaded
              /\ effects.batcher_epoch = cfg.saved_tracker.epoch
              /\ effects.batcher_batch_size = cfg.saved_tracker.batch_size
              /\ batcher_step > 0 =>
                    effects.current_learning_rate = cfg.saved_tracker.learning_rate
        /\ pc = "done" /\ ~should_break =>
              effects.epochs_started = Max(0, epochs - cfg.saved_tracker.epoch)

\* a resumed run ended after running the epochs left, with a batch size and a
\* learning rate that the earlier run had changed
C22_Witness ==
    /\ cfg.resume
    /\ pc = "done"
    /\ ~should_break
    /\ cfg.saved_tracker.epoch = 2
    /\ cfg.saved_tracker.batch_size # ConfigBatchSize
    /\ cfg.saved_tracker.learning_rate # BaseLearningRate
    /\ epochs = 3
    /\ effects.epochs_started = 1

\* a resumed run whose tracker had already reached the epochs asked for runs none
C22_WitnessNoEpochLeft ==
    cfg.resume /\ pc = "done" /\ cfg.saved_tracker.epoch = 2 /\ epochs = 1

(***************************************************************************)
(* Evaluations that leave metrics out, checked under SpecLogs              *)
(***************************************************************************)

\* the epoch's evaluation recorded the combined loss of every split evaluated
EpochRecorded ==
    /\ Len(progress_tracker.train_metrics[COMBINED][LOSS]) = progress_tracker.epoch
    /\ cfg.validation_set # "none" =>
          Len(progress_tracker.vali_metrics[COMBINED][LOSS]) = progress_tracker.epoch
    /\ cfg.test_set # "none" =>
          Len(progress_tracker.test_metrics[COMBINED][LOSS]) = progress_tracker.epoch

\* C23: when a metric is missing from an epoch's evaluation results, its entry is
\* skipped, the other metrics of the epoch are recorded, and training goes on to
\* the next epoch without raising, whichever metric is missing (the validation
\* metric and the metrics the plateau controllers watch included) and also in the
\* first epoch.
C23_MissingMetricSkipped ==
    /\ pc # "index_error"
    /\ pc \in {"validate", "save", "after_loop", "done"} => EpochRecorded

\* the part of C23 that holds: append_metrics skips the missing entry and records
\* the rest, and a run whose validation field is "combined" never raises
MissingMetricSkippedInLogs ==
    /\ pc \in {"validate", "save", "after_loop", "done", "index_error"} => EpochRecorded
    /\ pc = "index_error" => validation_field # COMBINED

\* what the early-stop check and the two plateau controllers keep in the tracker
CheckFields(pt) ==
    <<pt.best_eval_metric, pt.last_improvement_epoch, pt.last_improvement,
      RateFields(pt), BatchFields(pt)>>

\* the epochs recorded in a log
EpochsRecorded(log) == Len(log[COMBINED][LOSS])

\* C24: in every epoch the training split is evaluated; the validation split is
\* evaluated iff a validation set is given and the test split iff a test set is
\* given; the early-stop check and the two plateau controllers run only in a run
\* with a validation set to validate on: without one they leave the tracker as
\* it was built and never ask for a stop.
C24_SplitsEvaluatedWhenGiven ==
    TrackerBuilt =>
        /\ EpochsRecorded(progress_tracker.train_metrics) = progress_tracker.epoch
        /\ EpochsRecorded(progress_tracker.vali_metrics) =
              (IF cfg.validation_set # "none" THEN progress_tracker.epoch ELSE 0)
        /\ EpochsRecorded(progress_tracker.test_metrics) =
              (IF cfg.test_set # "none" THEN progress_tracker.epoch ELSE 0)
        /\ cfg.validation_set # "nonempty" =>
              /\ CheckFields(progress_tracker) = CheckFields(FreshTracker(cfg))
              /\ ~should_break

\* two epochs with an empty validation set and a test set: both were evaluated in
\* each epoch, and early stop after one epoch did not act
C24_Witness ==
    /\ pc = "done"
    /\ cfg.validation_set = "empty"
    /\ cfg.test_set = "nonempty"
    /\ cfg.early_stop = 1
    /\ progress_tracker.epoch = 2
    /\ EpochsRecorded(progress_tracker.vali_metrics) = 2
    /\ EpochsRecorded(progress_tracker.test_metrics) = 2
    /\ progress_tracker.last_improvement = 0

(***************************************************************************)
(* Termination of train(), checked under SpecLive                          *)
(***************************************************************************)

\* fresh runs of one to MaxEpochs epochs on the coordinator or on another worker,
\* on the main thread or on another one, with or without validation and early stop after one epoch, and runs that the
\* checks of the setup reject
LiveConfigs ==
    {c \in [epochs : 1 .. MaxEpochs,
            early_stop : {-1, 1},
            validation_field : {COMBINED, "z"},
            validation_metric : {LOSS},
            reduce_learning_rate_on_plateau : {0},
            reduce_learning_rate_on_plateau_patience : {0},
            reduce_learning_rate_eval_metric : {LOSS},
            reduce_learning_rate_eval_split : {TRAINING},
            increase_batch_size_on_plateau : {0},
            increase_batch_size_on_plateau_patience : {0},
            increase_batch_size_on_plateau_rate : {2},
            increase_batch_size_on_plateau_max : {512},
            increase_batch_size_eval_metric : {LOSS},
            increase_batch_size_eval_split : {TRAINING},
            validation_set : {"none", "nonempty"},
            test_set : {"none"},
            metrics_excepted : {FALSE},
            output_features : {ModelOutputFeatures},
            loss_interned : {TRUE},
            resume : {FALSE},
            main_thread : BOOLEAN,
            coordinator : BOOLEAN] :
        /\ ~ValidConfig(c) =>
              c.epochs = 1 /\ c.validation_set = "none" /\ c.coordinator
        /\ c.validation_set = "none" => c.early_stop = 1}

InitLive ==
    /\ cfg \in LiveConfigs
    /\ Constructed

\* train() with interrupts; the process keeps running train() until it returns,
\* raises or exits, and the batcher of an epoch ends after StepsPerEpoch batches
SpecLive == InitLive /\ [][Next]_vars /\ WF_vars(NextTrain)

\* train() returned, raised at its setup, or the process exited
Terminated == pc \in {"done", "raised", "exited"}

InitOom == InitTune \/ InitLive

\* tune_batch_size, or train() in which a gradient step may run out of memory
NextOom == NextTune \/ NextTrain \/ TrainStepOutOfMemory

SpecOom == InitOom /\ [][NextOom]_vars

\* C26: an out-of-memory RuntimeError raised by a trial of tune_batch_size is
\* caught there and never propagates to the caller; raised by a gradient step of
\* train() it propagates out of train(): the step is not retried, and no
\* checkpoint, weights or progress-tracker write happens after the failure.
C26_OutOfMemoryCaughtInTuningOnly ==
    /\ [](tune.outcome = "oom" => tune.pc # "raised" /\ tune.exc = "none")
    /\ [](effects.step_failures > 0 => pc = "runtime_error" /\ effects.step_failures = 1)
    /\ [][pc = "runtime_error" =>
            /\ disk' = disk
            /\ progress_tracker' = progress_tracker
            /\ batcher_step' = batcher_step]_vars

\* tune_batch_size returned after a trial that ran out of memory
C26_Witness ==
    /\ tune.pc = "returned"
    /\ tune.outcome = "oom"
    /\ tune.halving_count > 0

\* a step of the second epoch ran out of memory: train() was left, with what the
\* first epoch persisted
C26_WitnessTrain ==
    /\ pc = "runtime_error"
    /\ progress_tracker.epoch = 1
    /\ batcher_step = 1
    /\ disk.tracker_saved
    /\ disk.tracker.epoch = 1

(***************************************************************************)
(* The firing rule of the plateau controllers, checked under SpecPlateau   *)
(***************************************************************************)

\* the value the learning-rate controller reads in the current epoch
ReduceWatchedValue ==
    Last(SplitMetrics(progress_tracker, cfg.reduce_learning_rate_eval_split)
            [validation_field][cfg.reduce_learning_rate_eval_metric])

\* the value the batch-size controller reads in the current epoch
IncreaseWatchedValue ==
    Last(SplitMetrics(progress_tracker, cfg.increase_batch_size_eval_split)
            [validation_field][cfg.increase_batch_size_eval_metric])

\* the rule of section 4.3 for one controller in one epoch: improved says whether
\* the watched value is better than the best one, counter is the non-improvement
\* counter after its increment, since the epochs since the last trigger,
\* below_max whether the trigger count is below its maximum; fired, best_after and
\* counter_after are what the epoch did
PlateauRule(improved, value, counter, since, patience, below_max,
            fired, best_after, counter_after) ==
    IF improved
    THEN best_after = value /\ counter_after = 0 /\ ~fired
    ELSE fired <=> (counter > patience /\ since > patience /\ below_max)

PlateauRuleReached(improved, value, counter, since, patience, below_max,
                   fired, best_after, counter_after) ==
    IF ~below_max THEN ~fired
    ELSE IF improved THEN best_after = value /\ counter_after = 0 /\ ~fired
    ELSE fired <=> (counter >= patience /\ since >= patience)

\* what holds of C29: with "reach" for "exceed", and while the budget lasts
FiresWhenBothReachPatience ==
    [][ValidationStep =>
        /\ cfg.reduce_learning_rate_on_plateau > 0 =>
              PlateauRuleReached(
                  Improved(cfg.reduce_learning_rate_eval_metric, ReduceWatchedValue,
                           progress_tracker.best_reduce_learning_rate_eval_metric),
                  ReduceWatchedValue,
                  progress_tracker.last_reduce_learning_rate_eval_metric_improvement + 1,
                  progress_tracker.last_learning_rate_reduction,
                  cfg.reduce_learning_rate_on_plateau_patience,
                  ~AtLeast(progress_tracker.num_reductions_learning_rate,
                           cfg.reduce_learning_rate_on_plateau),
                  progress_tracker'.num_reductions_learning_rate
                      = progress_tracker.num_reductions_learning_rate + 1,
                  progress_tracker'.best_reduce_learning_rate_eval_metric,
                  progress_tracker'.last_reduce_learning_rate_eval_metric_improvement)
        /\ cfg.increase_batch_size_on_plateau > 0 =>
              PlateauRuleReached(
                  Improved(cfg.increase_batch_size_eval_metric, IncreaseWatchedValue,
                           progress_tracker.best_increase_batch_size_eval_metric),
                  IncreaseWatchedValue,
                  progress_tracker.last_increase_batch_size_eval_metric_improvement + 1,
                  progress_tracker.last_increase_batch_size,
                  cfg.increase_batch_size_on_plateau_patience,
                  /\ progress_tracker.num_increases_batch_size
                        < cfg.increase_batch_size_on_plateau
                  /\ progress_tracker.batch_size # cfg.increase_batch_size_on_plateau_max,
                  progress_tracker'.num_increases_batch_size
                      = progress_tracker.num_increases_batch_size + 1,
                  progress_tracker'.best_increase_batch_size_eval_metric,
                  progress_tracker'.last_increase_batch_size_eval_metric_improvement)]_vars

\* the learning-rate controller fired in this step
ReductionFired ==
    progress_tracker'.num_reductions_learning_rate
        = progress_tracker.num_reductions_learning_rate + 1

\* C30: progress_tracker.learning_rate changes only when the learning-rate plateau
\* controller fires; each firing multiplies it by exactly
\* reduce_learning_rate_on_plateau_rate, sets last_learning_rate_reduction_epoch to
\* the current epoch and increments num_reductions_learning_rate by exactly 1; no
\* training step, evaluation or batch-size firing changes it, so it never
\* increases during a run.
C30_LearningRateChangesOnFiringOnly ==
    [][TrackerBuilt =>
        /\ progress_tracker'.learning_rate # progress_tracker.learning_rate =>
              pc = "validate" /\ ReductionFired
        /\ progress_tracker'.num_reductions_learning_rate
              # progress_tracker.num_reductions_learning_rate =>
              /\ ReductionFired
              /\ progress_tracker'.learning_rate * RateDen
                    = progress_tracker.learning_rate * RateNum
              /\ progress_tracker'.last_learning_rate_reduction_epoch
                    = progress_tracker.epoch
        /\ progress_tracker'.learning_rate <= progress_tracker.learning_rate]_vars

\* the learning rate was halved in the second epoch, in which the batch size
\* was increased too, and training went on with it
C30_Witness ==
    /\ pc = "steps"
    /\ batcher_step > 0
    /\ progress_tracker.epoch = 2
    /\ progress_tracker.num_reductions_learning_rate = 1
    /\ progress_tracker.last_learning_rate_reduction_epoch = 2
    /\ progress_tracker.num_increases_batch_size = 1
    /\ progress_tracker.learning_rate * RateDen = BaseLearningRate * RateNum
    /\ effects.current_learning_rate = progress_tracker.learning_rate

(***************************************************************************)
(* The processes of a run (SpecHorovod): the resume logic and the          *)
(* broadcast of train(), then train_step, once per batch; with Horovod one *)
(* process per rank, without it a single process                           *)
(***************************************************************************)

\* horovod.size() of the distributed runs
HorovodSize == 2
\* the batches each process trains on
HorovodSteps == 2

\* parameters and optimizer state as constructed in the process of rank r
RandomState(r) == <<"random", r>>
\* parameters and optimizer state of the latest checkpoint
RestoredState == <<"checkpoint", 0>>

\* is_coordinator() in the process of rank r (lines 1383-1386)
RankIsCoordinator(p, r) == ~p.horovod \/ r = 0

\* a process that constructed its Trainer: state is what model and optimizer
\* hold (their origin and the gradient updates applied since), sent is what the
\* process handed to each broadcast it joined, grads and clipped describe the
\* gradients of the current step, ops lists the calls of the current step
ProcessOf(r, horovod) ==
    [horovod |-> horovod, pc |-> "resume",
     state |-> [origin |-> RandomState(r), updates |-> <<>>],
     sent |-> <<>>, received |-> 0,
     grads |-> "none", clipped |-> "none", allreduces |-> 0, backwards |-> 0,
     steps |-> 0, ops |-> <<>>]

\* lines 707-711: resume_weights_and_optimzier loads the latest checkpoint into
\* model and optimizer, on the coordinator only
ResumeWeights(p, r, resume) ==
    IF resume /\ RankIsCoordinator(p, r)
    THEN [p EXCEPT !.state = [origin |-> RestoredState, updates |-> <<>>]]
    ELSE p

\* line 343: self.optimizer.zero_grad()
ZeroGrad(p) ==
    [p EXCEPT !.grads = "zero", !.clipped = "none", !.allreduces = 0,
              !.ops = <<"zero_grad">>]

\* lines 346-353: the forward pass, the loss and loss.backward(); the gradients
\* are the process's own
ForwardBackward(p) ==
    [p EXCEPT !.grads = "local", !.backwards = @ + 1,
              !.ops = @ \o <<"forward", "backward">>]

\* optimizer.synchronize(): the all-reduce of the gradients has completed
Synchronize(p) ==
    [p EXCEPT !.grads = "aggregated", !.allreduces = @ + 1,
              !.ops = Append(@, "synchronize")]

\* line 360: self.clipper.clip_grads(variables) clips the gradients as they are
ClipGrads(p) ==
    [p EXCEPT !.clipped = p.grads, !.ops = Append(@, "clip_grads")]

\* optimizer.step(): the distributed optimizer synchronizes first unless told to
\* skip it, then applies the gradients
OptimizerStep(p, skip_synchronize) ==
    LET q == IF p.horovod /\ ~skip_synchronize
             THEN [Synchronize(p) EXCEPT !.ops = p.ops]
             ELSE p
    IN  [q EXCEPT !.state.updates = Append(@, <<q.grads, q.clipped>>),
                  !.steps = @ + 1,
                  !.ops = Append(@, "step")]

\* mutant of ApplyGradientUpdates: step() outside skip_synchronize()
ApplyGradientUpdatesSynchronizing(p) == OptimizerStep(p, FALSE)

\* lines 362-368: under Horovod step() runs inside optimizer.skip_synchronize()
ApplyGradientUpdates(p) ==
    IF p.horovod THEN OptimizerStep(p, TRUE) ELSE OptimizerStep(p, FALSE)

\* mutant of Received: the broadcast leaves the process's own state in place
ReceivedOwn(r) == ranks[r].state

\* broadcast_parameters / broadcast_optimizer_state with root_rank=0: what the
\* process of rank r holds afterwards is what rank 0 handed to that broadcast
Received(r) == ranks[0].sent[ranks[r].received + 1]

\* the other variables describe one process of train() and are left alone
OnlyRanksChange ==
    UNCHANGED <<flags, tune_vars, datasource, cfg, validation_field, epochs, received_sigint,
                handler_installed, sigints, sigint_pc, pc, batcher_step,
                should_break, progress_tracker, disk, effects, exit_status>>

\* lines 707-711 in the process of rank r
RankResume ==
    \E r \in DOMAIN ranks :
        /\ ranks[r].pc = "resume"
        /\ ranks' = [ranks EXCEPT
               ![r] = [ResumeWeights(ranks[r], r, cfg.resume) EXCEPT
                          !.pc = IF ranks[r].horovod THEN "broadcast" ELSE "loop"]]
        /\ OnlyRanksChange

\* lines 740-745: the process joins the broadcast with what it holds
RankBroadcast ==
    \E r \in DOMAIN ranks :
        /\ ranks[r].pc = "broadcast"
        /\ ranks' = [ranks EXCEPT ![r].sent = Append(@, ranks[r].state),
                                  ![r].pc = "broadcasting"]
        /\ OnlyRanksChange

\* the broadcast returns once every process has joined it
RankBroadcastDone ==
    \E r \in DOMAIN ranks :
        /\ ranks[r].pc = "broadcasting"
        /\ \A q \in DOMAIN ranks : Len(ranks[q].sent) > ranks[r].received
        /\ ranks' = [ranks EXCEPT ![r].state = Received(r),
                                  ![r].received = @ + 1,
                                  ![r].pc = "loop"]
        /\ OnlyRanksChange

\* line 918: while not batcher.last_batch()
RankLoopHead ==
    \E r \in DOMAIN ranks :
        /\ ranks[r].pc = "loop"
        /\ ranks' = [ranks EXCEPT
               ![r].pc = IF ranks[r].steps < HorovodSteps THEN "zero_grad" ELSE "done"]
        /\ OnlyRanksChange

\* line 343
RankZeroGrad ==
    \E r \in DOMAIN ranks :
        /\ ranks[r].pc = "zero_grad"
        /\ ranks' = [ranks EXCEPT ![r] = [ZeroGrad(ranks[r]) EXCEPT !.pc = "forward"]]
        /\ OnlyRanksChange

\* lines 346-353; under Horovod the process goes on to synchronize()
RankForwardBackward ==
    \E r \in DOMAIN ranks :
        /\ ranks[r].pc = "forward"
        /\ ranks' = [ranks EXCEPT
               ![r] = [ForwardBackward(ranks[r]) EXCEPT
                          !.pc = IF ranks[r].horovod THEN "synchronize" ELSE "clip"]]
        /\ OnlyRanksChange

\* lines 355-357: synchronize() returns once the gradients of every process
\* have arrived, that is once every process has finished this step's backward
RankSynchronize ==
    \E r \in DOMAIN ranks :
        /\ ranks[r].pc = "synchronize"
        /\ \A q \in DOMAIN ranks : ranks[q].backwards >= ranks[r].backwards
        /\ ranks' = [ranks EXCEPT ![r] = [Synchronize(ranks[r]) EXCEPT !.pc = "clip"]]
        /\ OnlyRanksChange

\* line 360
RankClipGrads ==
    \E r \in DOMAIN ranks :
        /\ ranks[r].pc = "clip"
        /\ ranks' = [ranks EXCEPT ![r] = [ClipGrads(ranks[r]) EXCEPT !.pc = "step"]]
        /\ OnlyRanksChange

\* lines 362-370: the update, and train_step returns
RankStep ==
    \E r \in DOMAIN ranks :
        /\ ranks[r].pc = "step"
        /\ ranks' = [ranks EXCEPT
               ![r] = [ApplyGradientUpdates(ranks[r]) EXCEPT !.pc = "stepped"]]
        /\ OnlyRanksChange

\* lines 995-1004: back to the head of the batch loop
RankBatchEnd ==
    \E r \in DOMAIN ranks :
        /\ ranks[r].pc = "stepped"
        /\ ranks' = [ranks EXCEPT ![r].pc = "loop"]
        /\ OnlyRanksChange

\* a run under Horovod with HorovodSize processes, or a run of one process
\* without Horovod, fresh or resumed
InitHorovod ==
    /\ cfg \in {[IdleConfig EXCEPT !.resume = b] : b \in BOOLEAN}
    /\ ConstructedTrainer
    /\ \E horovod \in BOOLEAN :
          ranks = [r \in 0 .. (IF horovod THEN HorovodSize - 1 ELSE 0)
                      |-> ProcessOf(r, horovod)]

NextHorovod ==
    \/ RankResume
    \/ RankBroadcast
    \/ RankBroadcastDone
    \/ RankLoopHead
    \/ RankZeroGrad
    \/ RankForwardBackward
    \/ RankSynchronize
    \/ RankClipGrads
    \/ RankStep
    \/ RankBatchEnd

SpecHorovod == InitHorovod /\ [][NextHorovod]_vars

\* the calls of one distributed training step, in order
DistributedStepOps ==
    <<"zero_grad", "forward", "backward", "synchronize", "clip_grads", "step">>

\* C31: in every distributed training step the order is clear gradients, forward
\* and backward pass, wait for the gradient aggregation, clip, apply the update;
\* the update is applied with synchronization skipped, so the gradients are
\* aggregated exactly once per step and clipping always acts on aggregated
\* gradients (and the aggregation of a step is complete only when every process
\* has finished that step's backward pass).
C31_DistributedStepOrder ==
    \A r \in DOMAIN ranks :
        LET p == ranks[r] IN
        p.horovod =>
            /\ p.pc = "stepped" =>
                  /\ p.ops = DistributedStepOps
                  /\ p.allreduces = 1
                  /\ p.state.updates[p.steps] = <<"aggregated", "aggregated">>
            /\ p.ops # <<>> =>
                  \E n \in 1 .. Len(DistributedStepOps) :
                      p.ops = SubSeq(DistributedStepOps, 1, n)
            /\ p.clipped \in {"none", "aggregated"}
            /\ p.allreduces <= 1
            /\ p.grads = "aggregated" =>
                  \A q \in DOMAIN ranks : ranks[q].backwards >= p.backwards

\* both processes of a distributed run finished their second step
C31_Witness ==
    /\ DOMAIN ranks = 0 .. HorovodSize - 1
    /\ \A r \in DOMAIN ranks :
          /\ ranks[r].horovod
          /\ ranks[r].pc = "stepped"
          /\ ranks[r].steps = 2
          /\ ranks[r].allreduces = 1
          /\ ranks[r].clipped = "aggregated"

\* what rank 0 holds when it joins the broadcast: the checkpoint's parameters and
\* optimizer state in a resumed run, its own initial ones otherwise
RootState ==
    [origin |-> IF cfg.resume THEN RestoredState ELSE RandomState(0),
     updates |-> <<>>]

\* C32: in a distributed run model parameters and optimizer state are broadcast
\* from rank 0 exactly once per train() call, before the first training step;
\* when resuming, the broadcast happens after the coordinator has restored model
\* and optimizer from the checkpoint, so every worker starts the epoch loop with
\* the restored state.
C32_BroadcastOnceBeforeLoop ==
    \A r \in DOMAIN ranks :
        LET p == ranks[r] IN
        p.horovod =>
            /\ p.pc \in {"resume", "broadcast"} =>
                  Len(p.sent) = 0 /\ p.received = 0 /\ p.backwards = 0
            /\ p.pc = "broadcasting" =>
                  Len(p.sent) = 1 /\ p.received = 0 /\ p.backwards = 0
            /\ p.pc \notin {"resume", "broadcast", "broadcasting"} =>
                  /\ Len(p.sent) = 1
                  /\ p.received = 1
                  /\ p.state.origin = RootState.origin
                  /\ p.steps = 0 /\ p.pc \in {"loop", "zero_grad"} =>
                        p.state = RootState
            /\ r = 0 /\ Len(p.sent) > 0 => p.sent[1] = RootState

\* a resumed distributed run: the process of rank 1 is about to run its first
\* training step with the checkpoint's state, which rank 0 loaded
C32_Witness ==
    /\ cfg.resume
    /\ DOMAIN ranks = 0 .. HorovodSize - 1
    /\ ranks[1].horovod
    /\ ranks[1].pc = "zero_grad"
    /\ ranks[1].steps = 0
    /\ ranks[1].received = 1
    /\ ranks[1].state.origin = RestoredState
    /\ ranks[1].sent[1].origin = RandomState(1)

(***************************************************************************)
(* The lifecycle callbacks of train() (SpecCallbacks)                      *)
(***************************************************************************)

\* runs of one to MaxEpochs epochs with and without a validation set and a test
\* set, with early stop off or after one epoch without improvement, on the
\* coordinator and on another worker
CallbackConfigs ==
    {[IdleConfig EXCEPT
          !.epochs = n, !.early_stop = s, !.validation_field = COMBINED,
          !.validation_metric = LOSS, !.validation_set = v, !.test_set = t,
          !.reduce_learning_rate_on_plateau = 0,
          !.main_thread = TRUE, !.coordinator = k] :
        n \in 1 .. MaxEpochs, s \in {-1, 1}, v \in {"none", "empty", "nonempty"},
        t \in {"none", "nonempty"}, k \in BOOLEAN}

InitCallbacks ==
    /\ cfg \in CallbackConfigs
    /\ Constructed

SpecCallbacks == InitCallbacks /\ [][NextTrain]_vars

RECURSIVE BatchCallbacks(_)
\* on_batch_start / on_batch_end around each of n training steps
BatchCallbacks(n) ==
    IF n = 0 THEN <<>>
    ELSE <<"on_batch_start", "on_batch_end">> \o BatchCallbacks(n - 1)

\* the callbacks of one whole epoch in the order the claim gives
EpochCallbacks ==
    <<"on_epoch_start">>
    \o BatchCallbacks(StepsPerEpoch)
    \o (IF cfg.validation_set # "none"
        THEN <<"on_validation_start", "on_validation_end">> ELSE <<>>)
    \o (IF cfg.test_set # "none" THEN <<"on_test_start", "on_test_end">> ELSE <<>>)
    \o <<"on_epoch_end">>

\* the calls of the current epoch so far are the first calls of a whole epoch
CallbacksInOrder ==
    /\ Len(effects.callbacks) <= Len(EpochCallbacks)
    /\ effects.callbacks = SubSeq(EpochCallbacks, 1, Len(effects.callbacks))

\* a non-coordinator worker invokes only on_trainer_train_setup
WorkerCallsSetupOnly ==
    ~IsCoordinator =>
        /\ effects.callbacks = <<>>
        /\ effects.epoch_start_calls = 0
        /\ effects.epoch_end_calls = 0
        /\ pc \in {"loop", "steps", "validate", "save", "after_loop", "done"} =>
              effects.setup_callback

\* C33: on the coordinator the lifecycle callbacks of each epoch fire in the
\* order on_epoch_start, on_batch_start / on_batch_end around every training
\* step, on_validation_start / on_validation_end if a validation set is given,
\* on_test_start / on_test_end if a test set is given, on_epoch_end; every
\* on_epoch_start is followed by a matching on_epoch_end on every normal exit
\* of the loop, early stop included; a non-coordinator worker invokes only
\* on_trainer_train_setup.
C33_CallbackLifecycle ==
    /\ IsCoordinator =>
          /\ CallbacksInOrder
          /\ pc = "loop" /\ effects.epoch_start_calls > 0 =>
                effects.callbacks = EpochCallbacks
          /\ pc \in {"after_loop", "done"} =>
                effects.epoch_end_calls = effects.epoch_start_calls
    /\ WorkerCallsSetupOnly

\* the same, except that an early stop leaves the loop before on_epoch_end: the
\* last epoch's calls then are all but on_epoch_end
CallbackLifecycleButEarlyStop ==
    /\ IsCoordinator =>
          /\ CallbacksInOrder
          /\ pc = "loop" /\ effects.epoch_start_calls > 0 =>
                effects.callbacks = EpochCallbacks
          /\ pc \in {"after_loop", "done"} /\ ~should_break =>
                effects.epoch_end_calls = effects.epoch_start_calls
          /\ pc \in {"after_loop", "done"} /\ should_break =>
                /\ effects.epoch_end_calls + 1 = effects.epoch_start_calls
                /\ effects.callbacks
                      = SubSeq(EpochCallbacks, 1, Len(EpochCallbacks) - 1)
    /\ WorkerCallsSetupOnly

(***************************************************************************)
(* tune_learning_rate (SpecTuneLr)                                         *)
(***************************************************************************)

\* bounds of the arguments explored
MaxTuneEpochs == 2
MaxTrainingSteps == 3
MaxStepsPerEpoch == 2

\* a float: a fraction with a positive denominator, or NaN
Float(n, d) == [nan |-> FALSE, num |-> n, den |-> d]
NaN == [nan |-> TRUE, num |-> 0, den |-> 1]
FAdd(a, b) ==
    IF a.nan \/ b.nan THEN NaN
    ELSE Float(a.num * b.den + b.num * a.den, a.den * b.den)
FMul(a, b) == IF a.nan \/ b.nan THEN NaN ELSE Float(a.num * b.num, a.den * b.den)
\* a / b for b > 0
FDiv(a, b) == IF a.nan \/ b.nan THEN NaN ELSE Float(a.num * b.den, a.den * b.num)
\* a < b and a > b are False when either side is NaN
FLess(a, b) == ~a.nan /\ ~b.nan /\ a.num * b.den < b.num * a.den
FGreater(a, b) == FLess(b, a)

\* beta, the smoothing factor (an argument, 0.98 by default): here 1/2
BetaNum == 1
BetaDen == 2
Beta == Float(BetaNum, BetaDen)
OneMinusBeta == Float(BetaDen - BetaNum, BetaDen)

RECURSIVE BetaPower(_)
\* beta ** n
BetaPower(n) == IF n = 0 THEN Float(1, 1) ELSE FMul(Beta, BetaPower(n - 1))

\* the losses a training step may return
StepLosses == {Float(0, 1), Float(1, 1), Float(4, 1), NaN}

\* get_optimal_lr, skip_begin: int = 10, skip_end: int = 1
SkipBegin == 10
SkipEnd == 1

\* lines 479-487: the rate at the steepest descent of losses[skip_begin:-skip_end];
\* np.gradient raises on fewer than two values and the function returns None
GetOptimalLr(losses) ==
    IF Len(losses) - SkipBegin - SkipEnd < 2 THEN "None" ELSE "steepest"

\* the arguments of tune_learning_rate and the batches of an epoch of the
\* training set
TuneLrInputs ==
    [total_training_steps : 0 .. MaxTrainingSteps,
     early_stop_threshold : {1, 3},
     steps_per_epoch : 0 .. MaxStepsPerEpoch]

\* lines 460-467: the locals of tune_learning_rate at entry; train_steps counts
\* the calls of train_step
TuneLrEntry ==
    [pc |-> "outer", avg_loss |-> Float(0, 1), best_loss |-> Float(0, 1),
     losses |-> <<>>, epoch |-> 0, step_count |-> 0, diverging |-> FALSE,
     batcher_step |-> 0, train_steps |-> 0, result |-> "none"]

\* mutant of InnerLoopGoesOn: the batches of the epoch are all trained on
InnerLoopToLastBatch(t, in) == t.batcher_step < in.steps_per_epoch

\* line 497: while not batcher.last_batch() and step_count < total_training_steps
InnerLoopGoesOn(t, in) ==
    t.batcher_step < in.steps_per_epoch /\ t.step_count < in.total_training_steps

\* lines 494-496, 534-539: the outer loop's condition, the start of an epoch, and
\* the return after the loop
TuneLrOuter ==
    /\ tune.pc = "outer"
    /\ IF /\ tune.epoch < epochs
          /\ tune.step_count < tune_in.total_training_steps
          /\ ~tune.diverging
       THEN tune' = [tune EXCEPT !.pc = "inner", !.batcher_step = 0]
       ELSE tune' = [tune EXCEPT
                        !.pc = "done",
                        !.result = IF GetOptimalLr(tune.losses) = "None"
                                   THEN "base_learning_rate" ELSE "optimal_lr"]
    /\ UNCHANGED <<flags, tune_in, train_vars>>

\* lines 497-532: one batch, one training step with the loss it returns, the
\* smoothed loss, the divergence test and the next learning rate
TuneLrStep ==
    /\ tune.pc = "inner"
    /\ InnerLoopGoesOn(tune, tune_in)
    /\ \E loss \in StepLosses :
          LET avg_loss == FAdd(FMul(Beta, tune.avg_loss), FMul(OneMinusBeta, loss))
              smoothed_loss ==
                  FDiv(avg_loss,
                       FAdd(Float(1, 1),
                            FMul(Float(-1, 1), BetaPower(tune.step_count + 1))))
              stepped == [tune EXCEPT !.avg_loss = avg_loss,
                                      !.losses = Append(@, smoothed_loss),
                                      !.batcher_step = @ + 1,
                                      !.train_steps = @ + 1]
          IN  IF /\ tune.step_count > 0
                 /\ FGreater(smoothed_loss,
                             FMul(Float(tune_in.early_stop_threshold, 1), tune.best_loss))
              THEN tune' = [stepped EXCEPT !.diverging = TRUE, !.pc = "epoch_end"]
              ELSE tune' = [stepped EXCEPT
                               !.best_loss =
                                   IF FLess(smoothed_loss, @) \/ tune.step_count = 0
                                   THEN smoothed_loss ELSE @,
                               !.step_count = @ + 1]
    /\ UNCHANGED <<flags, tune_in, train_vars>>

\* line 497 false, line 534: the inner loop ends and the epoch is counted
TuneLrEpochEnd ==
    /\ \/ tune.pc = "inner" /\ ~InnerLoopGoesOn(tune, tune_in)
       \/ tune.pc = "epoch_end"
    /\ tune' = [tune EXCEPT !.pc = "outer", !.epoch = @ + 1]
    /\ UNCHANGED <<flags, tune_in, train_vars>>

\* a Trainer of 0 to MaxTuneEpochs epochs entering tune_learning_rate
InitTuneLr ==
    /\ tune_in \in TuneLrInputs
    /\ tune = TuneLrEntry
    /\ skip_save_model = FALSE
    /\ skip_save_progress = FALSE
    /\ skip_save_log = FALSE
    /\ cfg = IdleConfig
    /\ validation_field = cfg.validation_field
    /\ ranks = NoRanks
    /\ datasource = NoDatasource
    /\ epochs \in 0 .. MaxTuneEpochs
    /\ received_sigint = FALSE
    /\ handler_installed = FALSE
    /\ sigints = 0
    /\ sigint_pc = "none"
    /\ pc = "idle"
    /\ batcher_step = 0
    /\ should_break = FALSE
    /\ progress_tracker = NullTracker
    /\ disk = EmptyDisk
    /\ effects = NoEffects
    /\ exit_status = -1

NextTuneLr == TuneLrOuter \/ TuneLrStep \/ TuneLrEpochEnd

\* tune_learning_rate keeps running until it returns
SpecTuneLr == InitTuneLr /\ [][NextTuneLr]_vars /\ WF_vars(NextTuneLr)

\* the best of the first k smoothed losses: the least one, NaN if all are NaN
BestSeen(k) ==
    LET seen == {tune.losses[j] : j \in 1 .. k}
        numbers == {x \in seen : ~x.nan}
    IN  IF numbers = {} THEN NaN
        ELSE CHOOSE x \in numbers : \A y \in numbers : ~FLess(y, x)

\* the smoothed loss of some step other than step 0 exceeded early_stop_threshold
\* times the best smoothed loss seen before it
Exceeded ==
    \E i \in 2 .. Len(tune.losses) :
        FGreater(tune.losses[i],
                 FMul(Float(tune_in.early_stop_threshold, 1), BestSeen(i - 1)))

\* C34: tune_learning_rate performs at most total_training_steps gradient steps
\* in total across epochs, and performs no further step after the first step
\* (other than step 0) whose smoothed loss exceeds early_stop_threshold times the
\* best smoothed loss seen so far; it terminates for every loss sequence.
C34_TuneLrBoundedAndStops ==
    /\ [](tune.train_steps <= tune_in.total_training_steps)
    /\ [][Exceeded => tune'.train_steps = tune.train_steps]_vars
    /\ <>(tune.pc = "done")

\* the second step's smoothed loss was more than three times the first one's:
\* the function returned after two of its three steps, in the first epoch
C34_Witness ==
    /\ tune.pc = "done"
    /\ tune.diverging
    /\ Exceeded
    /\ tune_in.early_stop_threshold = 3
    /\ tune_in.total_training_steps = 3
    /\ tune.train_steps = 2
    /\ tune.epoch = 1

\* every allowed step was taken, over two epochs, with a NaN loss among them
C34_WitnessAllSteps ==
    /\ tune.pc = "done"
    /\ ~tune.diverging
    /\ tune.train_steps = tune_in.total_training_steps
    /\ tune.train_steps = 3
    /\ tune.epoch = 2
    /\ tune.losses[3].nan

(***************************************************************************)
(* The points at which a run can abort (SpecAbort): the save of the        *)
(* training progress is two writes, and the process can be interrupted or  *)
(* fail between any two statements of train()                              *)
(***************************************************************************)

\* line 898: checkpoint_manager.save(progress_tracker.epoch); with max_to_keep=1
\* the checkpoint written replaces the one retained
SaveCheckpoint ==
    /\ pc = "save"
    /\ disk' = IF IsCoordinator /\ ~skip_save_progress
               THEN [disk EXCEPT !.checkpoint_epoch = progress_tracker.epoch]
               ELSE disk
    /\ pc' = "save_tracker"
    /\ UNCHANGED <<flags, tune_vars, ranks, datasource, cfg, validation_field, epochs, received_sigint,
                   handler_installed, sigints, sigint_pc, batcher_step, should_break,
                   progress_tracker, effects, exit_status>>

\* lines 899-901: progress_tracker.save(...), then on_epoch_end
SaveTracker ==
    /\ pc = "save_tracker"
    /\ disk' = IF IsCoordinator /\ ~skip_save_progress
               THEN [disk EXCEPT !.tracker_saved = TRUE, !.tracker = progress_tracker]
               ELSE disk
    /\ effects' = Callback(effects, "on_epoch_end")
    /\ pc' = "loop"
    /\ UNCHANGED <<flags, tune_vars, ranks, datasource, cfg, validation_field, epochs, received_sigint,
                   handler_installed, sigints, sigint_pc, batcher_step, should_break,
                   progress_tracker, exit_status>>

\* train() with interrupts and with gradient steps that may fail
NextAbort ==
    \/ TrainSetup
    \/ LoopHead
    \/ TrainStep
    \/ TrainStepOutOfMemory
    \/ EpochEval
    \/ ValidationLogic
    \/ SaveCheckpoint
    \/ SaveTracker
    \/ TrainReturn
    \/ SetEpochsTo1OrQuit
    \/ SigintNotHandled

SpecAbort == InitLive /\ [][NextAbort]_vars

\* the run was aborted: an exception left train(), or the process exited
Aborted == pc \in {"runtime_error", "index_error", "exited"}

\* C35: at every point at which a run can abort after the first completed epoch
\* (an exception in a step or evaluation, or a second interrupt), the persisted
\* progress-tracker snapshot and the retained checkpoint refer to the same
\* epoch, so a later resume restores weights and tracker of one and the same
\* epoch.
C35_RecoveryPointConsistent ==
    Aborted /\ disk.tracker_saved => disk.checkpoint_epoch = disk.tracker.epoch

\* the same at the aborts that do not fall between the two writes of the save:
\* an exception in a step or in the validation logic finds checkpoint and tracker
\* of one epoch, and only between the two writes is the checkpoint one epoch
\* ahead of the tracker
RecoveryPointConsistentOutsideSave ==
    disk.tracker_saved =>
        /\ pc \notin {"save_tracker", "exited"} =>
              disk.checkpoint_epoch = disk.tracker.epoch
        /\ disk.checkpoint_epoch \in {disk.tracker.epoch, disk.tracker.epoch + 1}
        /\ disk.checkpoint_epoch = disk.tracker.epoch + 1 =>
              disk.checkpoint_epoch = progress_tracker.epoch

(***************************************************************************)
(* The batch size over the settings TrainerConfig accepts (SpecBatch)      *)
(***************************************************************************)

\* increase_batch_size_on_plateau_rate is a NonNegativeFloat (line 171) and
\* increase_batch_size_on_plateau_max a PositiveInteger (line 174): rates 0, 1
\* and 2, and maxima below, at and above the initial batch size
BatchRates == {0, 1, 2}
BatchMaxima == {64, 128, 200, 512}

\* runs of MaxEpochs epochs in which the batch-size controller watches the
\* training or the validation split and may fire once or twice
BatchConfigs ==
    {[c EXCEPT !.increase_batch_size_on_plateau_rate = r,
               !.increase_batch_size_on_plateau_max = m] :
        c \in {p \in PlateauConfigs :
                  /\ p.reduce_learning_rate_on_plateau = 0
                  /\ p.increase_batch_size_on_plateau > 0
                  /\ p.increase_batch_size_on_plateau_max = 512},
        r \in BatchRates, m \in BatchMaxima}

InitBatch ==
    /\ cfg \in BatchConfigs
    /\ Constructed

SpecBatch == InitBatch /\ [][NextTrain]_vars

\* C36: progress_tracker.batch_size never decreases during a run: for every
\* configuration accepted by TrainerConfig (any initial batch_size, any
\* increase_batch_size_on_plateau_rate and increase_batch_size_on_plateau_max)
\* each epoch's batch size is >= the previous epoch's.
C36_BatchSizeNeverDecreases ==
    [][TrackerBuilt => progress_tracker'.batch_size >= progress_tracker.batch_size]_vars

\* the same for the settings whose rate is at least 1 and whose maximum is at
\* least the initial batch size
BatchSizeGrowsUnderRateAndMax ==
    [][/\ TrackerBuilt
       /\ cfg.increase_batch_size_on_plateau_rate >= 1
       /\ cfg.increase_batch_size_on_plateau_max >= ConfigBatchSize
       => progress_tracker'.batch_size >= progress_tracker.batch_size]_vars

(***************************************************************************)
(* The split a plateau controller watches (SpecSplits)                     *)
(***************************************************************************)

\* runs with a validation set, with and without a test set, whose controllers
\* watch the training, the validation or the test split
SplitConfigs ==
    {[c EXCEPT !.reduce_learning_rate_eval_split =
                   IF c.reduce_learning_rate_on_plateau > 0 THEN r ELSE TRAINING,
               !.increase_batch_size_eval_split =
                   IF c.increase_batch_size_on_plateau > 0 THEN i ELSE TRAINING,
               !.test_set = t] :
        c \in {p \in PlateauConfigs :
                  /\ p.reduce_learning_rate_on_plateau \in {0, 2}
                  /\ p.increase_batch_size_on_plateau \in {0, 1}
                  /\ p.reduce_learning_rate_on_plateau + p.increase_batch_size_on_plateau > 0
                  /\ p.reduce_learning_rate_eval_split = TRAINING
                  /\ p.increase_batch_size_eval_split = TRAINING
                  /\ p.increase_batch_size_on_plateau_max = 512},
        r \in {TRAINING, VALIDATION, TEST},
        i \in {TRAINING, VALIDATION, TEST},
        t \in {"none", "nonempty"}}

InitSplits ==
    /\ cfg \in SplitConfigs
    /\ Constructed

SpecSplits == InitSplits /\ [][NextTrain]_vars

\* the learning-rate controller is about to run: enabled, its budget not used up
ReduceRuns ==
    /\ pc = "validate" /\ ShouldValidate
    /\ cfg.reduce_learning_rate_on_plateau > 0
    /\ ~AtLeast(progress_tracker.num_reductions_learning_rate,
                cfg.reduce_learning_rate_on_plateau)

\* the batch-size controller is about to run
IncreaseRuns ==
    /\ pc = "validate" /\ ShouldValidate
    /\ cfg.increase_batch_size_on_plateau > 0
    /\ progress_tracker.num_increases_batch_size < cfg.increase_batch_size_on_plateau
    /\ progress_tracker.batch_size # cfg.increase_batch_size_on_plateau_max

\* the log a controller reads: its split, the validation field, its metric
LogRead(split, metric) ==
    SplitMetrics(progress_tracker, split)[validation_field][metric]

\* C37: whenever a plateau controller runs, the metric log it reads (the split
\* chosen by its eval_split setting, under the validation field and its eval
\* metric) holds at least one value, so the controller never fails on an empty
\* log; in particular with the split set to test in a run that has a validation
\* set but no test set.
C37_WatchedLogNeverEmpty ==
    /\ ReduceRuns =>
          LogRead(cfg.reduce_learning_rate_eval_split,
                     cfg.reduce_learning_rate_eval_metric) # <<>>
    /\ IncreaseRuns =>
          LogRead(cfg.increase_batch_size_eval_split,
                     cfg.increase_batch_size_eval_metric) # <<>>
    /\ pc # "index_error"

\* the split is evaluated in the run: training always, validation in a run that
\* validates, test when a test set is given
SplitEvaluated(split) ==
    \/ split = TRAINING
    \/ split = VALIDATION /\ cfg.validation_set # "none"
    \/ split = TEST /\ cfg.test_set # "none"

\* the same for the controllers whose split is evaluated in the run
WatchedLogNonEmptyWhenEvaluated ==
    /\ ReduceRuns /\ SplitEvaluated(cfg.reduce_learning_rate_eval_split) =>
          LogRead(cfg.reduce_learning_rate_eval_split,
                     cfg.reduce_learning_rate_eval_metric) # <<>>
    /\ IncreaseRuns /\ SplitEvaluated(cfg.increase_batch_size_eval_split) =>
          LogRead(cfg.increase_batch_size_eval_split,
                     cfg.increase_batch_size_eval_metric) # <<>>
    /\ pc = "index_error" =>
          \/ /\ cfg.reduce_learning_rate_on_plateau > 0
             /\ ~SplitEvaluated(cfg.reduce_learning_rate_eval_split)
          \/ /\ cfg.increase_batch_size_on_plateau > 0
             /\ ~SplitEvaluated(cfg.increase_batch_size_eval_split)

(***************************************************************************)
(* BinaryNaNCompatibleDatasource (SpecRead): prepare_read and the read     *)
(* tasks it returns, src/ludwig/backend/datasource.py                      *)
(***************************************************************************)

\* bounds of the arguments explored
MaxPaths == 3
MaxParallelism == 3

\* a path that is NaN or None
NaNPath == <<"NaN">>
\* the paths of an uncompressed file, a gzip file and a Snappy file
FilePaths == {<<"raw", "plain.bin">>, <<"raw", "data.gz">>, <<"raw", "data.snappy">>}

\* ludwig.utils.strings_utils.is_nan_or_none
IsNanOrNone(path) == path = NaNPath

\* _resolve_paths_and_filesystem and meta_provider.expand_paths (lines 138-139):
\* the path of the file as the filesystem names it
Resolved(raw_path) == <<"resolved", raw_path[2]>>
\* the file size expand_paths reports
FileSizeOf(raw_path) == Len(raw_path[2])
\* line 136: unknown file size is None
UnknownFileSize == -1

\* pa.Codec.detect(read_path).name (line 94): the codec of a known extension,
\* ValueError otherwise, and for Snappy (comment at 96-97)
CodecDetect(path) == IF path[2] = "data.gz" THEN "gzip" ELSE "ValueError"

\* pathlib.Path(read_path).suffix[1:] (lines 100-101)
Suffix(path) ==
    IF path[2] = "data.gz" THEN "gz"
    ELSE IF path[2] = "data.snappy" THEN "snappy"
    ELSE "bin"

\* lines 88-104: the compression detected from the path
DetectCompression(path) ==
    IF CodecDetect(path) # "ValueError" THEN CodecDetect(path)
    ELSE IF Suffix(path) = "snappy" THEN "snappy"
    ELSE "None"

\* lines 87-114 for one path: args holds the "compression" entries of
\* open_stream_args and reader_args, "None" for an absent one
SetCompression(args, path) ==
    LET popped == args.open_stream_args
        compression == IF popped = "None" THEN DetectCompression(path) ELSE popped
    IN  IF compression = "snappy"
        THEN [open_stream_args |-> "None", reader_args |-> "snappy"]
        ELSE IF compression # "None"
        THEN [open_stream_args |-> compression, reader_args |-> args.reader_args]
        ELSE [open_stream_args |-> "None", reader_args |-> args.reader_args]

\* the size of section k of np.array_split over len items in n sections
SectionSize(len, n, k) == len \div n + (IF k <= len % n THEN 1 ELSE 0)

\* the sections are sliced at the full length, the remainder cut off
ArraySplitEven(paths, n) ==
    [k \in 1 .. n |->
        SubSeq(paths, (k - 1) * (Len(paths) \div n) + 1, k * (Len(paths) \div n))]

\* np.array_split(paths, n) for n > 0: n sections in order, the first
\* len % n of them one longer
ArraySplit(paths, n) ==
    [k \in 1 .. n |->
        LET start == (k - 1) * (Len(paths) \div n) + Min(k - 1, Len(paths) % n) + 1
        IN  SubSeq(paths, start, start + SectionSize(Len(paths), n, k) - 1)]

\* lines 131-143, partition_filter None: the read paths and file sizes of one
\* section
SectionTask(raw_paths) ==
    [read_paths |-> [i \in 1 .. Len(raw_paths) |->
                        IF IsNanOrNone(raw_paths[i]) THEN raw_paths[i]
                        ELSE Resolved(raw_paths[i])],
     file_sizes |-> [i \in 1 .. Len(raw_paths) |->
                        IF IsNanOrNone(raw_paths[i]) THEN UnknownFileSize
                        ELSE FileSizeOf(raw_paths[i])]]

RECURSIVE NonEmptyTasks(_)
\* lines 145-155: a section without paths makes no task
NonEmptyTasks(sections) ==
    IF sections = <<>> THEN <<>>
    ELSE IF Len(Head(sections)) <= 0 THEN NonEmptyTasks(Tail(sections))
    ELSE <<SectionTask(Head(sections))>> \o NonEmptyTasks(Tail(sections))

\* the paths handed to _resolve_paths_and_filesystem, in order
ResolvedOf(paths) == SelectSeq(paths, LAMBDA p : ~IsNanOrNone(p))

\* _read_file (lines 176-181) and BinaryDatasource._read_file: the record of a
\* path, the file's bytes as opened and decoded, or None
RecordOf(path, data, include_paths) ==
    IF include_paths THEN <<path, data>> ELSE <<data>>
NoneData == <<"None">>
Bytes(path, args) == <<"bytes", path, args.open_stream_args, args.reader_args>>

\* the arguments of prepare_read: paths, parallelism, the compression of
\* open_stream_args, include_paths of reader_args
ReadInputs ==
    [paths : UNION {[1 .. n -> FilePaths \cup {NaNPath}] : n \in 0 .. MaxPaths},
     parallelism : 1 .. MaxParallelism,
     compression : {"None", "gzip", "snappy"},
     include_paths : BOOLEAN]

\* a datasource before prepare_read
DatasourceOf(in) ==
    [pc |-> "prepare", in |-> in, tasks |-> <<>>, resolved |-> <<>>,
     done |-> {}, task |-> 0, i |-> 0,
     args |-> [open_stream_args |-> in.compression, reader_args |-> "None"],
     opened |-> <<>>, records |-> <<>>]

\* prepare_read (lines 52-157); np.array_split raises ValueError for 0 sections
PrepareRead ==
    /\ datasource.pc = "prepare"
    /\ LET parallelism == Min(datasource.in.parallelism, Len(datasource.in.paths))
       IN  IF parallelism <= 0
           THEN datasource' = [datasource EXCEPT !.pc = "raised"]
           ELSE datasource' =
                    [datasource EXCEPT
                        !.pc = "ready",
                        !.tasks = NonEmptyTasks(ArraySplit(datasource.in.paths, parallelism)),
                        !.resolved = ResolvedOf(datasource.in.paths)]
    /\ UNCHANGED <<flags, tune_vars, ranks, trainer_vars>>

\* a read task runs read_files (lines 76-85) on its own copy of the closure, so
\* with the open_stream_args and reader_args the caller gave
ReadTaskStart ==
    /\ datasource.pc = "ready"
    /\ \E k \in (1 .. Len(datasource.tasks)) \ datasource.done :
          datasource' =
              [datasource EXCEPT
                  !.pc = "reading", !.task = k, !.i = 1,
                  !.args = [open_stream_args |-> datasource.in.compression,
                            reader_args |-> "None"],
                  !.opened = <<>>, !.records = <<>>]
    /\ UNCHANGED <<flags, tune_vars, ranks, trainer_vars>>

\* lines 85-120, one path of the task: the compression, _open_input_source
\* (172-174), read_stream and _read_file
ReadFile ==
    /\ datasource.pc = "reading"
    /\ datasource.i <= Len(datasource.tasks[datasource.task].read_paths)
    /\ LET read_path == datasource.tasks[datasource.task].read_paths[datasource.i]
           args == IF IsNanOrNone(read_path) THEN datasource.args
                   ELSE SetCompression(datasource.args, read_path)
       IN  datasource' =
               [datasource EXCEPT
                   !.i = @ + 1,
                   !.args = args,
                   !.opened = IF IsNanOrNone(read_path) THEN @
                              ELSE Append(@, [path |-> read_path,
                                              open |-> args.open_stream_args,
                                              decode |-> args.reader_args]),
                   !.records =
                       Append(@, RecordOf(read_path,
                                          IF IsNanOrNone(read_path) THEN NoneData
                                          ELSE Bytes(read_path, args),
                                          datasource.in.include_paths))]
    /\ UNCHANGED <<flags, tune_vars, ranks, trainer_vars>>

\* lines 121-123: the task's paths are read, its locals are gone
ReadTaskEnd ==
    /\ datasource.pc = "reading"
    /\ datasource.i > Len(datasource.tasks[datasource.task].read_paths)
    /\ datasource' = [DatasourceOf(datasource.in) EXCEPT
                          !.pc = "ready",
                          !.tasks = datasource.tasks,
                          !.resolved = datasource.resolved,
                          !.done = datasource.done \cup {datasource.task}]
    /\ UNCHANGED <<flags, tune_vars, ranks, trainer_vars>>

InitRead ==
    /\ \E in \in ReadInputs : datasource = DatasourceOf(in)
    /\ cfg = IdleConfig
    /\ skip_save_model = FALSE
    /\ skip_save_progress = FALSE
    /\ skip_save_log = FALSE
    /\ tune_in = CHOOSE t \in TuneInputs : TRUE
    /\ tune = TuneIdle
    /\ validation_field = cfg.validation_field
    /\ ranks = NoRanks
    /\ epochs = cfg.epochs
    /\ received_sigint = FALSE
    /\ handler_installed = FALSE
    /\ sigints = 0
    /\ sigint_pc = "none"
    /\ pc = "idle"
    /\ batcher_step = 0
    /\ should_break = FALSE
    /\ progress_tracker = NullTracker
    /\ disk = EmptyDisk
    /\ effects = NoEffects
    /\ exit_status = -1

NextRead == PrepareRead \/ ReadTaskStart \/ ReadFile \/ ReadTaskEnd

SpecRead == InitRead /\ [][NextRead]_vars

\* the compression a file is read with when it depends on its own path and on
\* the caller's compression only
CompressionFor(path) ==
    IF datasource.in.compression # "None" THEN datasource.in.compression
    ELSE DetectCompression(path)

\* C38: within one read task the compression used to open and decode each file
\* depends only on that file's own path and on the compression the caller
\* supplied, not on which files were read before it in the same task: an
\* uncompressed file read after a compressed one is opened without compression.
C38_CompressionPerFile ==
    datasource.pc \in {"ready", "reading"} =>
        \A n \in 1 .. Len(datasource.opened) :
            LET e == datasource.opened[n] IN
            /\ e.open = IF CompressionFor(e.path) = "snappy" THEN "None"
                        ELSE CompressionFor(e.path)
            /\ e.decode = IF CompressionFor(e.path) = "snappy" THEN "snappy"
                          ELSE "None"

\* the same for the first file a task reads
CompressionOfFirstFile ==
    datasource.pc \in {"ready", "reading"} /\ Len(datasource.opened) > 0 =>
        LET e == datasource.opened[1] IN
        /\ e.open = IF CompressionFor(e.path) = "snappy" THEN "None"
                    ELSE CompressionFor(e.path)
        /\ e.decode = IF CompressionFor(e.path) = "snappy" THEN "snappy"
                      ELSE "None"

\* the input path a read path stands for
RawOf(read_path) ==
    IF IsNanOrNone(read_path) THEN read_path ELSE <<"raw", read_path[2]>>

RECURSIVE TaskPaths(_)
\* the path lists of the tasks, concatenated in task order, as input paths
TaskPaths(tasks) ==
    IF tasks = <<>> THEN <<>>
    ELSE [i \in 1 .. Len(Head(tasks).read_paths) |-> RawOf(Head(tasks).read_paths[i])]
         \o TaskPaths(Tail(tasks))

C39_WitnessUnevenSections ==
    /\ datasource.pc = "ready"
    /\ datasource.in.parallelism = 2
    /\ Len(datasource.in.paths) = 3
    /\ Len(datasource.tasks) = 2
    /\ Len(datasource.tasks[1].read_paths) = 2
    /\ datasource.tasks[1].read_paths[1] = NaNPath
    /\ datasource.done = {1, 2}

====
